---- MODULE Spec2Model ----
(***************************************************************************)
(* Model of cola-plugin-action: manifest validation, packaging, the OCI    *)
(* and GitHub Release publishers and the action entry point.               *)
(*                                                                         *)
(* Strings of the program are sequences of one-character strings, so that  *)
(* the regular expressions and character filters of the code are computed  *)
(* and not assumed.                                                        *)
(***************************************************************************)
EXTENDS Integers, Sequences, FiniteSets, TLC

(***************************************************************************)
(* Bounds of the model                                                     *)
(***************************************************************************)
MaxPkgs == 2
MaxRuns == 2
MaxName == 3
MaxAssets == 3
MaxKeep == 2
MaxFile == 2

(***************************************************************************)
(* Characters and strings                                                  *)
(***************************************************************************)
UpperChars == <<"A","B","C","D","E","F","G","H","I","J","K","L","M",
                "N","O","P","Q","R","S","T","U","V","W","X","Y","Z">>
LowerChars == <<"a","b","c","d","e","f","g","h","i","j","k","l","m",
                "n","o","p","q","r","s","t","u","v","w","x","y","z">>
DigitChars == <<"0","1","2","3","4","5","6","7","8","9">>

Range(s) == { s[i] : i \in DOMAIN s }

IsUpper(c) == c \in Range(UpperChars)
IsLower(c) == c \in Range(LowerChars)
IsDigit(c) == c \in Range(DigitChars)
IsSpace(c) == c \in {" ", "\t", "\n"}

\* tr '[:upper:]' '[:lower:]' / String.prototype.toLowerCase on one character
ToLower(c) ==
    IF IsUpper(c)
    THEN LowerChars[CHOOSE i \in DOMAIN UpperChars : UpperChars[i] = c]
    ELSE c

MapStr(f(_), s) == [i \in DOMAIN s |-> f(s[i])]

RECURSIVE FilterStr(_, _)
FilterStr(keep(_), s) ==
    IF s = <<>> THEN <<>>
    ELSE IF keep(Head(s)) THEN <<Head(s)>> \o FilterStr(keep, Tail(s))
    ELSE FilterStr(keep, Tail(s))

IsNameChar(c) == IsLower(c) \/ IsDigit(c) \/ c = "-"

SpaceToHyphen(c) == IF IsSpace(c) THEN "-" ELSE c

InvalidToHyphen(c) == IF IsNameChar(c) THEN c ELSE "-"

\* sanitizeName of utils/manifest.ts, as its tests pin it: lower-case, then
\* a hyphen for every character outside [a-z0-9-] ('test_plugin',
\* 'test plugin' and 'test@plugin' all give 'test-plugin')
sanitizeName(name) == MapStr(InvalidToHyphen, MapStr(ToLower, name))

(***************************************************************************)
(* Sample data: versions, manifests and package directories                *)
(***************************************************************************)
V100 == <<"1", ".", "0", ".", "0">>
V110 == <<"1", ".", "1", ".", "0">>

NoManifest == [readable |-> FALSE]

Manifest(n, v) == [readable |-> TRUE, pkgName |-> n, version |-> v]

\* A package directory: its folder name and what readManifest finds in it.
PkgDirs ==
    { [folder |-> "p1", manifest |-> Manifest(<<"a">>, V100)],
      [folder |-> "p2", manifest |-> Manifest(<<"A">>, V100)],
      [folder |-> "p3", manifest |-> Manifest(<<"b">>, V100)],
      [folder |-> "p4", manifest |-> Manifest(<<"a">>, V110)],
      [folder |-> "p5", manifest |-> NoManifest] }

\* Directory listings: sequences of distinct directories, at most MaxPkgs long
DirListings ==
    UNION { { s \in [1..n -> PkgDirs] :
                \A i, j \in 1..n : i # j => s[i].folder # s[j].folder }
            : n \in 0..MaxPkgs }

(***************************************************************************)
(* OCI registry: a set of tags [repo, tag, content]; at most one per       *)
(* (repo, tag)                                                             *)
(***************************************************************************)
LatestTag == <<"l", "a", "t", "e", "s", "t">>

\* oras manifest fetch <ociRef>:<tag> succeeds (exit code 0)
ManifestFetchOk(reg, ociRef, tag) ==
    \E t \in reg : t.repo = ociRef /\ t.tag = tag

\* A check that asks for the repository and forgets the tag
checkOCITagExists_RepoOnly(reg, ociRef, tag, fetchFails) ==
    IF fetchFails THEN FALSE ELSE \E t \in reg : t.repo = ociRef

\* checkOCITagExists: true only if the fetch command exits with code 0; a
\* failing command (fetchFails) gives a non-zero code or a caught exception
checkOCITagExists(reg, ociRef, tag, fetchFails) ==
    IF fetchFails THEN FALSE ELSE ManifestFetchOk(reg, ociRef, tag)

\* oras push <ociRef>:<tag> <archive>
orasPushReg(reg, ociRef, tag, content) ==
    { t \in reg : ~(t.repo = ociRef /\ t.tag = tag) }
        \cup { [repo |-> ociRef, tag |-> tag, content |-> content] }

\* oras tag <ociRef>:<sourceTag> <targetTag>
orasTagReg(reg, ociRef, sourceTag, targetTag) ==
    LET src == CHOOSE t \in reg : t.repo = ociRef /\ t.tag = sourceTag
    IN  orasPushReg(reg, ociRef, targetTag, src.content)

InitialRegistries ==
    { {},
      { [repo |-> <<"a">>, tag |-> V100, content |-> "old"],
        [repo |-> <<"a">>, tag |-> LatestTag, content |-> "old"] } }

(***************************************************************************)
(* State                                                                   *)
(***************************************************************************)
VARIABLES
    target,         \* the publisher of this behaviour: "oci", "release", "sh"
    packageDirs,    \* the directories of the packages (plugins) directory
    registry,       \* the OCI registry
    loggedIn,       \* oras login done and not logged out
    tempDir,        \* a temporary archive directory exists
    oci_pc,         \* position of pushToOCI
    oci_i,          \* index of the package directory being processed
    pushedCount,
    skippedCount,
    ociRun,         \* bookkeeping of the current run
    ociRuns,        \* the finished runs of pushToOCI, oldest first
    packages,       \* createPluginReleases: options.packages
    forceRelease,   \* createPluginReleases: options.forceRelease
    remoteTags,     \* tags of the GitHub repository
    localTags,      \* tags of the local clone
    releases,       \* tags that have a GitHub release
    assets,         \* tags whose release has the archive as an asset
    rel_pc,         \* position of createPluginReleases
    rel_i,          \* index of the package being processed
    createdReleases,
    skippedReleases,
    deletedReleases,
    relRun,         \* bookkeeping of the current run
    relRuns,        \* the finished runs of createPluginReleases
    sh_pc,          \* position of push-to-oci.sh
    sh_i,           \* index of the plugin directory being processed
    pushed_count,
    shRun,          \* bookkeeping of the current run
    shRuns,         \* the finished runs of push-to-oci.sh
    pluginsDirectory, \* the subdirectories of the plugins directory, in
                    \* listing order
    val_impl,       \* the validator: "ts" (validatePlugins) or "sh"
                    \* (validate-manifest.sh)
    val_pc,         \* position of the validator
    val_i,          \* index of the plugin directory being validated
    validPlugins,
    invalidPlugins,
    totalErrors,
    totalWarnings,
    SUMMARY_COUNTERS,
    validated_dirs,
    valLog,         \* what was found in each directory checked so far
    valExit,        \* how the validator ended: "none" while it runs
    pk_impl,        \* the packager: "ts" (packagePlugins) or "sh"
                    \* (package-plugin.sh)
    format,         \* options.format / PACKAGE_FORMAT
    pk_pc,          \* position of the packager
    pk_i,           \* index of the plugin directory being packaged
    pk_packages,    \* packagePlugins: packages; script: packaged_artifacts
    outputFiles,    \* the files of the output directory
    pkLog,          \* what happened to each directory processed so far
    pkExit,         \* how the packager ended: "none" while it runs
    inputs,         \* the inputs of the action
    run_pc,         \* position of run()
    executed,       \* the steps run() has entered, in order
    failed,         \* core.setFailed was called
    fn,             \* the utility function that is called, "none" if none
    args,           \* its arguments
    ret,            \* << >> before the call, <<result>> after it
    doc_impl,       \* the documentation generator: "ts" (generateDocs) or
                    \* "sh" (generate-docs-from-releases.sh)
    keepVersions,   \* options.keepVersions / DOCS_KEEP_VERSIONS
    releaseAssets,  \* the plugin archives of the releases, in release order
    doc_pc,         \* position of the generator
    doc_g,          \* index of the plugin being processed
    doc_i,          \* index of the asset being processed
    docs,           \* processPluginVersions: docs, as the list of versions
    pluginDocs,     \* pluginDocs / the plugin data files: for each plugin
                    \* its name and its versions
    pages,          \* the generated per-version pages plugins/<p>/v<v>/
    indexPages,     \* the generated pages plugins/<p>/index.html
    versionsJson,   \* the plugins of the generated versions.json
    docLog,         \* what happened to each asset processed so far
    docExit,        \* how the generator ended: "none" while it runs
    templates,      \* which template files can be read: the page template
                    \* and the version index template
    basicPages      \* the per-version pages written by generateBasicHtml

storeVars == <<packageDirs, registry, loggedIn, tempDir>>
ociVars == <<oci_pc, oci_i, pushedCount, skippedCount, ociRun, ociRuns>>
relVars == <<packages, forceRelease, remoteTags, localTags, releases, assets,
             rel_pc, rel_i, createdReleases, skippedReleases,
             deletedReleases, relRun, relRuns>>
shVars == <<sh_pc, sh_i, pushed_count, shRun, shRuns>>

valVars == <<val_impl, val_pc, val_i, validPlugins, invalidPlugins,
             totalErrors, totalWarnings, SUMMARY_COUNTERS, validated_dirs,
             valLog, valExit>>
pkgVars == <<pk_impl, format, pk_pc, pk_i, pk_packages, outputFiles, pkLog,
             pkExit>>
runVars == <<inputs, run_pc, executed, failed>>
publishVars == <<storeVars, ociVars, relVars, shVars>>
utilVars == <<fn, args, ret>>
docVars == <<doc_impl, keepVersions, releaseAssets, doc_pc, doc_g, doc_i, docs,
             pluginDocs, pages, indexPages, versionsJson, docLog, docExit,
             templates, basicPages>>
auxVars == <<utilVars, docVars>>

vars == <<target, publishVars, pluginsDirectory, valVars, pkgVars, runVars,
          auxVars>>

\* What the actions of one component leave alone
ociRest == <<target, relVars, shVars, pluginsDirectory, valVars, pkgVars,
             runVars, auxVars>>
relRest == <<target, storeVars, ociVars, shVars, pluginsDirectory, valVars,
             pkgVars, runVars, auxVars>>
shRest == <<target, ociVars, relVars, pluginsDirectory, valVars, pkgVars,
            runVars, auxVars>>
valRest == <<target, publishVars, pluginsDirectory, pkgVars, runVars,
             auxVars>>
pkgRest == <<target, publishVars, pluginsDirectory, valVars, runVars,
             auxVars>>
runRest == <<target, publishVars, pluginsDirectory, valVars, pkgVars,
             auxVars>>
utilRest == <<target, publishVars, pluginsDirectory, valVars, pkgVars,
              runVars, docVars>>
docRest == <<target, publishVars, pluginsDirectory, valVars, pkgVars,
             runVars, utilVars>>

(***************************************************************************)
(* pushToOCI (src/oci.ts)                                                  *)
(***************************************************************************)
NewRun(reg) ==
    [regBefore |-> reg, pushes |-> 0, tags |-> 0, checks |-> 0,
     fetchFault |-> FALSE, errorAt |-> 0]

StoreInit ==
    /\ packageDirs = <<>>
    /\ registry = {}
    /\ loggedIn = FALSE
    /\ tempDir = FALSE

OciIdle ==
    /\ oci_pc = "idle"
    /\ oci_i = 0
    /\ pushedCount = 0
    /\ skippedCount = 0
    /\ ociRun = NewRun({})
    /\ ociRuns = <<>>

OciInit ==
    /\ packageDirs \in DirListings
    /\ registry \in InitialRegistries
    /\ loggedIn = FALSE
    /\ tempDir = FALSE
    /\ OciIdle

\* The current package directory and what is derived from its manifest
CurDir == packageDirs[oci_i]
CurRef == sanitizeName(CurDir.manifest.pkgName)
CurVersion == CurDir.manifest.version

\* The run ends: with an exception reaching the caller (ok = FALSE) or with
\* the result { pushedCount, skippedCount }
EndRun(ok, at, run) ==
    /\ oci_pc' = "idle"
    /\ ociRun' = run
    /\ ociRuns' = Append(ociRuns,
           [ok |-> ok, at |-> at, reached |-> oci_i', errorAt |-> run.errorAt,
            pushedCount |-> pushedCount', skippedCount |-> skippedCount',
            regBefore |-> run.regBefore, regAfter |-> registry',
            pushes |-> run.pushes, tags |-> run.tags, checks |-> run.checks,
            fetchFault |-> run.fetchFault,
            loggedIn |-> loggedIn', tempDir |-> tempDir'])

\* The catch block of the loop body: the error of package oci_i is rethrown
Rethrow(at) == EndRun(FALSE, at, [ociRun EXCEPT !.errorAt = oci_i])

\* pushToOCI is called: ensureOrasInstalled
ensureOrasInstalled ==
    /\ \/ target = "oci" /\ Len(ociRuns) < MaxRuns
       \/ target = "run" /\ run_pc = "push" /\ ociRuns = << >>
    /\ oci_pc = "idle"
    /\ oci_i' = 0
    /\ pushedCount' = 0
    /\ skippedCount' = 0
    /\ UNCHANGED <<storeVars, ociRest>>
    /\ \/ /\ oci_pc' = "login"
          /\ ociRun' = NewRun(registry)
          /\ UNCHANGED ociRuns
       \/ EndRun(FALSE, "install", NewRun(registry))

orasLogin ==
    /\ oci_pc = "login"
    /\ UNCHANGED <<packageDirs, registry, tempDir, oci_i, pushedCount,
                   skippedCount, ociRest>>
    /\ \/ /\ loggedIn' = TRUE
          /\ oci_pc' = "find"
          /\ UNCHANGED <<ociRun, ociRuns>>
       \/ /\ UNCHANGED loggedIn
          /\ EndRun(FALSE, "login", ociRun)

\* findPackageDirectories and the check for an empty list
findPackageDirectories ==
    /\ oci_pc = "find"
    /\ UNCHANGED <<storeVars, oci_i, pushedCount, skippedCount, ociRest>>
    /\ IF Len(packageDirs) = 0
       THEN EndRun(FALSE, "no packages found", ociRun)
       ELSE /\ oci_pc' = "loop"
            /\ UNCHANGED <<ociRun, ociRuns>>

\* for (const packageDir of packageDirs): next element or leave the loop
loopHead ==
    /\ oci_pc = "loop"
    /\ UNCHANGED <<storeVars, pushedCount, skippedCount, ociRun, ociRuns,
                   ociRest>>
    /\ IF oci_i < Len(packageDirs)
       THEN oci_i' = oci_i + 1 /\ oci_pc' = "read"
       ELSE oci_i' = oci_i /\ oci_pc' = "logout"

readManifest ==
    /\ oci_pc = "read"
    /\ UNCHANGED <<storeVars, oci_i, pushedCount, skippedCount, ociRest>>
    /\ IF CurDir.manifest.readable
       THEN /\ oci_pc' = "check"
            /\ UNCHANGED <<ociRun, ociRuns>>
       ELSE Rethrow("read")

\* checkOCITagExists and the skip branch
checkTag ==
    /\ oci_pc = "check"
    /\ \E fetchFails \in BOOLEAN :
          /\ ociRun' = [ociRun EXCEPT !.checks = @ + 1,
                                      !.fetchFault = @ \/ fetchFails]
          /\ IF checkOCITagExists(registry, CurRef, CurVersion, fetchFails)
             THEN /\ skippedCount' = skippedCount + 1
                  /\ oci_pc' = "loop"
             ELSE /\ skippedCount' = skippedCount
                  /\ oci_pc' = "archive"
    /\ UNCHANGED <<storeVars, oci_i, pushedCount, ociRuns, ociRest>>

\* fs.mkdtemp and createTarGz; the finally block removes the directory
createTempArchive ==
    /\ oci_pc = "archive"
    /\ UNCHANGED <<packageDirs, registry, loggedIn, oci_i, pushedCount,
                   skippedCount, ociRest>>
    /\ \/ /\ tempDir' = TRUE
          /\ oci_pc' = "push"
          /\ UNCHANGED <<ociRun, ociRuns>>
       \/ /\ tempDir' = FALSE
          /\ Rethrow("archive")

orasPush ==
    /\ oci_pc = "push"
    /\ UNCHANGED <<packageDirs, loggedIn, oci_i, pushedCount, skippedCount,
                   ociRest>>
    /\ \/ /\ registry' = orasPushReg(registry, CurRef, CurVersion,
                                     CurDir.folder)
          /\ ociRun' = [ociRun EXCEPT !.pushes = @ + 1]
          /\ oci_pc' = "tag"
          /\ UNCHANGED <<tempDir, ociRuns>>
       \/ /\ UNCHANGED registry
          /\ tempDir' = FALSE
          /\ Rethrow("push")

\* orasTag(ociRef, version, 'latest'), pushedCount++ and the finally block
orasTag ==
    /\ oci_pc = "tag"
    /\ UNCHANGED <<packageDirs, loggedIn, oci_i, skippedCount, ociRest>>
    /\ tempDir' = FALSE
    /\ \/ /\ registry' = orasTagReg(registry, CurRef, CurVersion, LatestTag)
          /\ ociRun' = [ociRun EXCEPT !.tags = @ + 1]
          /\ pushedCount' = pushedCount + 1
          /\ oci_pc' = "loop"
          /\ UNCHANGED ociRuns
       \/ /\ UNCHANGED <<registry, pushedCount>>
          /\ Rethrow("tag")

\* orasLogout, the summary and the final check of the counters
orasLogout ==
    /\ oci_pc = "logout"
    /\ UNCHANGED <<packageDirs, registry, tempDir, oci_i, pushedCount,
                   skippedCount, ociRest>>
    /\ \/ /\ loggedIn' = FALSE
          /\ IF pushedCount = 0 /\ skippedCount = 0
             THEN EndRun(FALSE, "no packages were processed", ociRun)
             ELSE EndRun(TRUE, "return", ociRun)
       \/ /\ UNCHANGED loggedIn
          /\ EndRun(FALSE, "logout", ociRun)

OciNext ==
    \/ ensureOrasInstalled
    \/ orasLogin
    \/ findPackageDirectories
    \/ loopHead
    \/ readManifest
    \/ checkTag
    \/ createTempArchive
    \/ orasPush
    \/ orasTag
    \/ orasLogout

(***************************************************************************)
(* createPluginReleases (src/release.ts, and the variant with forceRelease)*)
(***************************************************************************)
Hyphen == <<"-">>

\* const tagName = `${pkg.name}-${pkg.version}`
TagName(pkg) == pkg.name \o Hyphen \o pkg.version

RelPkgs ==
    { [name |-> <<"a">>, version |-> V100],
      [name |-> <<"b">>, version |-> V100],
      [name |-> <<"a">>, version |-> V110] }

PackageLists == UNION { [1..n -> RelPkgs] : n \in 0..MaxPkgs }

PublishedA == TagName([name |-> <<"a">>, version |-> V100])

NewRelRun == [errorAt |-> 0, ops |-> <<>>]

RelQuiet ==
    /\ packages = <<>>
    /\ remoteTags = {}
    /\ localTags = {}
    /\ releases = {}
    /\ assets = {}
    /\ rel_pc = "idle"
    /\ rel_i = 0
    /\ createdReleases = <<>>
    /\ skippedReleases = <<>>
    /\ deletedReleases = <<>>
    /\ relRun = NewRelRun
    /\ relRuns = <<>>

RelIdle == RelQuiet /\ forceRelease = FALSE

RelInit ==
    /\ packages \in PackageLists
    /\ forceRelease \in BOOLEAN
    /\ \/ remoteTags = {} /\ releases = {} /\ assets = {}
       \/ /\ remoteTags = {PublishedA}
          /\ releases = {PublishedA}
          /\ assets = {PublishedA}
    /\ localTags = {}
    /\ rel_pc = "idle"
    /\ rel_i = 0
    /\ createdReleases = <<>>
    /\ skippedReleases = <<>>
    /\ deletedReleases = <<>>
    /\ relRun = NewRelRun
    /\ relRuns = <<>>

CurTag == TagName(packages[rel_i])

Did(run, op) == [run EXCEPT !.ops = Append(@, [op |-> op, i |-> rel_i])]

\* The run ends: an exception reaches the caller (ok = FALSE) or the result
\* { createdReleases, skippedReleases, deletedReleases } is returned
EndRel(ok, at, run) ==
    /\ rel_pc' = "idle"
    /\ relRun' = run
    /\ relRuns' = Append(relRuns,
           [ok |-> ok, at |-> at, reached |-> rel_i', errorAt |-> run.errorAt,
            ops |-> run.ops, force |-> forceRelease,
            createdReleases |-> createdReleases',
            skippedReleases |-> skippedReleases',
            deletedReleases |-> deletedReleases',
            releases |-> releases', assets |-> assets',
            remoteTags |-> remoteTags'])

\* The catch block of the loop body: the error of package rel_i is rethrown
RelRethrow(at) == EndRel(FALSE, at, [relRun EXCEPT !.errorAt = rel_i])

\* createPluginReleases is called; repository must have the form owner/repo
createPluginReleases ==
    /\ target = "release"
    /\ rel_pc = "idle"
    /\ Len(relRuns) < MaxRuns
    /\ rel_i' = 0
    /\ createdReleases' = <<>>
    /\ skippedReleases' = <<>>
    /\ deletedReleases' = <<>>
    /\ localTags' \in {localTags, {}}
    /\ UNCHANGED <<packages, forceRelease, remoteTags, releases, assets,
                   relRest>>
    /\ \/ /\ rel_pc' = "loop"
          /\ relRun' = NewRelRun
          /\ UNCHANGED relRuns
       \/ EndRel(FALSE, "repository", NewRelRun)

\* for (const pkg of packages): next element, or the summary and the return
relLoopHead ==
    /\ rel_pc = "loop"
    /\ UNCHANGED <<packages, forceRelease, remoteTags, localTags, releases,
                   assets, createdReleases, skippedReleases, deletedReleases,
                   relRest>>
    /\ IF rel_i < Len(packages)
       THEN /\ rel_i' = rel_i + 1
            /\ rel_pc' = "check"
            /\ UNCHANGED <<relRun, relRuns>>
       ELSE /\ rel_i' = rel_i
            /\ EndRel(TRUE, "return", relRun)

\* octokit.rest.git.getRef answers 200 for an existing tag and 404 otherwise
GetRefFinds(tags, tagName) == tagName \in tags

\* checkTagExists with a skip that is not recorded in skippedReleases
checkTagExists_SkipUnrecorded ==
    /\ rel_pc = "check"
    /\ UNCHANGED <<packages, forceRelease, remoteTags, localTags, releases,
                   assets, rel_i, createdReleases, deletedReleases, relRest>>
    /\ \/ /\ UNCHANGED skippedReleases
          /\ RelRethrow("check")
       \/ /\ relRun' = Did(relRun, "check")
          /\ UNCHANGED relRuns
          /\ IF GetRefFinds(remoteTags, CurTag)
             THEN IF forceRelease
                  THEN /\ rel_pc' = "delete"
                       /\ UNCHANGED skippedReleases
                  ELSE /\ rel_pc' = "loop"
                       /\ UNCHANGED skippedReleases
             ELSE /\ rel_pc' = "tag"
                  /\ UNCHANGED skippedReleases

\* checkTagExists and the branch on tagExists / forceRelease
checkTagExists ==
    /\ rel_pc = "check"
    /\ UNCHANGED <<packages, forceRelease, remoteTags, localTags, releases,
                   assets, rel_i, createdReleases, deletedReleases, relRest>>
    /\ \/ /\ UNCHANGED skippedReleases
          /\ RelRethrow("check")
       \/ /\ relRun' = Did(relRun, "check")
          /\ UNCHANGED relRuns
          /\ IF GetRefFinds(remoteTags, CurTag)
             THEN IF forceRelease
                  THEN /\ rel_pc' = "delete"
                       /\ UNCHANGED skippedReleases
                  ELSE /\ rel_pc' = "loop"
                       /\ skippedReleases' = Append(skippedReleases, CurTag)
             ELSE /\ rel_pc' = "tag"
                  /\ UNCHANGED skippedReleases

\* deleteExistingRelease: the release, the local tag, the remote tag; a
\* failing git command is ignored (ignoreReturnCode)
deleteExistingRelease ==
    /\ rel_pc = "delete"
    /\ UNCHANGED <<packages, forceRelease, rel_i, createdReleases,
                   skippedReleases, relRest>>
    /\ \/ /\ UNCHANGED <<remoteTags, localTags, releases, assets,
                         deletedReleases>>
          /\ RelRethrow("delete")
       \/ /\ releases' = releases \ {CurTag}
          /\ assets' = assets \ {CurTag}
          /\ localTags' = localTags \ {CurTag}
          /\ \E remoteDeleted \in BOOLEAN :
                remoteTags' = IF remoteDeleted THEN remoteTags \ {CurTag}
                              ELSE remoteTags
          /\ deletedReleases' = Append(deletedReleases, CurTag)
          /\ relRun' = Did(relRun, "delete")
          /\ rel_pc' = "tag"
          /\ UNCHANGED relRuns

\* git tag <tagName>
gitTag ==
    /\ rel_pc = "tag"
    /\ UNCHANGED <<packages, forceRelease, remoteTags, releases, assets,
                   rel_i, createdReleases, skippedReleases, deletedReleases,
                   relRest>>
    /\ \/ /\ UNCHANGED localTags
          /\ RelRethrow("tag")
       \/ /\ CurTag \notin localTags
          /\ localTags' = localTags \cup {CurTag}
          /\ relRun' = Did(relRun, "tag")
          /\ rel_pc' = "pushtag"
          /\ UNCHANGED relRuns

\* git push <remoteUrl> <tagName>
gitPushTag ==
    /\ rel_pc = "pushtag"
    /\ UNCHANGED <<packages, forceRelease, localTags, releases, assets,
                   rel_i, createdReleases, skippedReleases, deletedReleases,
                   relRest>>
    /\ \/ /\ UNCHANGED remoteTags
          /\ RelRethrow("pushtag")
       \/ /\ remoteTags' = remoteTags \cup {CurTag}
          /\ relRun' = Did(relRun, "pushtag")
          /\ rel_pc' = "create"
          /\ UNCHANGED relRuns

\* fs.readFile(pkg.archivePath) and octokit.rest.repos.createRelease
createRelease ==
    /\ rel_pc = "create"
    /\ UNCHANGED <<packages, forceRelease, remoteTags, localTags, assets,
                   rel_i, createdReleases, skippedReleases, deletedReleases,
                   relRest>>
    /\ \/ /\ UNCHANGED releases
          /\ RelRethrow("create")
       \/ /\ CurTag \notin releases
          /\ releases' = releases \cup {CurTag}
          /\ relRun' = Did(relRun, "create")
          /\ rel_pc' = "upload"
          /\ UNCHANGED relRuns

\* octokit.rest.repos.uploadReleaseAsset and createdReleases.push(tagName)
uploadReleaseAsset ==
    /\ rel_pc = "upload"
    /\ UNCHANGED <<packages, forceRelease, remoteTags, localTags, releases,
                   rel_i, skippedReleases, deletedReleases, relRest>>
    /\ \/ /\ UNCHANGED <<assets, createdReleases>>
          /\ RelRethrow("upload")
       \/ /\ assets' = assets \cup {CurTag}
          /\ createdReleases' = Append(createdReleases, CurTag)
          /\ relRun' = Did(relRun, "upload")
          /\ rel_pc' = "loop"
          /\ UNCHANGED relRuns

RelNext ==
    \/ createPluginReleases
    \/ relLoopHead
    \/ checkTagExists
    \/ deleteExistingRelease
    \/ gitTag
    \/ gitPushTag
    \/ createRelease
    \/ uploadReleaseAsset

(***************************************************************************)
(* scripts/push-to-oci.sh, run by bash under set -euo pipefail: a command  *)
(* that returns a non-zero status outside a condition ends the script      *)
(***************************************************************************)
LegacyManifest(n, v, c) ==
    [present |-> TRUE, Name |-> n, Version |-> v, CommandName |-> c]

ShDirs ==
    { [folder |-> "s1", manifest |-> LegacyManifest(<<"a">>, V100, <<"a">>)],
      [folder |-> "s2", manifest |-> LegacyManifest(<<"b">>, V100, <<"b">>)],
      [folder |-> "s3", manifest |-> LegacyManifest(<<"c">>, V100, <<>>)],
      [folder |-> "s4", manifest |-> [present |-> FALSE]] }

ShListings ==
    UNION { { s \in [1..n -> ShDirs] :
                \A i, j \in 1..n : i # j => s[i].folder # s[j].folder }
            : n \in 0..MaxPkgs }

\* sanitize_name of common.sh: tr upper to lower, tr ' ' '-', sed strips
\* every character outside [a-z0-9-]
BlankToHyphen(c) == IF c = " " THEN "-" ELSE c

\* echo "$1": an argument made of echo's options (-n, -e, -E) is consumed
\* as options and nothing but a line end at most is printed
echo(s) ==
    IF Len(s) >= 2 /\ s[1] = "-" /\ \A i \in 2..Len(s) : s[i] \in {"n", "e", "E"}
    THEN << >>
    ELSE s

sanitize_name(name) ==
    FilterStr(IsNameChar, MapStr(BlankToHyphen, MapStr(ToLower, echo(name))))

\* check_oci_tag_exists of common.sh: status 0 iff oras manifest fetch
\* succeeds
check_oci_tag_exists(reg, oci_ref, tag, fetchFails) ==
    ~fetchFails /\ ManifestFetchOk(reg, oci_ref, tag)

\* ((pushed_count++)) has status 1 when the value before the increment is 0
IncrementStatus(count) == IF count = 0 THEN 1 ELSE 0

NewShRun == [errorAt |-> 0, pushes |-> 0, tags |-> 0, checks |-> 0]

ShIdle ==
    /\ sh_pc = "idle"
    /\ sh_i = 0
    /\ pushed_count = 0
    /\ shRun = NewShRun
    /\ shRuns = <<>>

ShInit ==
    /\ packageDirs \in ShListings
    /\ registry \in InitialRegistries
    /\ loggedIn = FALSE
    /\ tempDir = FALSE
    /\ ShIdle

ShDir == packageDirs[sh_i]
ShRef == sanitize_name(ShDir.manifest.CommandName)
ShVersion == ShDir.manifest.Version

\* The script exits with the given status
EndSh(code, at, run) ==
    /\ sh_pc' = "idle"
    /\ shRun' = run
    /\ shRuns' = Append(shRuns,
           [code |-> code, at |-> at, reached |-> sh_i',
            errorAt |-> run.errorAt, pushed_count |-> pushed_count',
            pushes |-> run.pushes, tags |-> run.tags, checks |-> run.checks,
            loggedIn |-> loggedIn', tempDir |-> tempDir'])

\* The script starts: environment checks, installation, oras version
shStart ==
    /\ target = "sh"
    /\ sh_pc = "idle"
    /\ Len(shRuns) < MaxRuns
    /\ sh_i' = 0
    /\ pushed_count' = 0
    /\ UNCHANGED <<storeVars, shRest>>
    /\ \/ /\ sh_pc' = "login"
          /\ shRun' = NewShRun
          /\ UNCHANGED shRuns
       \/ EndSh(1, "install", NewShRun)

\* echo "$OCI_TOKEN" | oras login ...
shLogin ==
    /\ sh_pc = "login"
    /\ UNCHANGED <<packageDirs, registry, tempDir, sh_i, pushed_count,
                   shRest>>
    /\ \/ /\ loggedIn' = TRUE
          /\ sh_pc' = "loop"
          /\ UNCHANGED <<shRun, shRuns>>
       \/ /\ UNCHANGED loggedIn
          /\ EndSh(1, "login", shRun)

\* for plugin_dir in "$PLUGINS_DIR"/*/
shLoopHead ==
    /\ sh_pc = "loop"
    /\ UNCHANGED <<storeVars, pushed_count, shRun, shRuns, shRest>>
    /\ IF sh_i < Len(packageDirs)
       THEN sh_i' = sh_i + 1 /\ sh_pc' = "fields"
       ELSE sh_i' = sh_i /\ sh_pc' = "logout"

\* The manifest file test and the three required fields
shFields ==
    /\ sh_pc = "fields"
    /\ UNCHANGED <<storeVars, sh_i, pushed_count, shRun, shRuns, shRest>>
    /\ IF ~ShDir.manifest.present
       THEN sh_pc' = "loop"
       ELSE IF \/ ShDir.manifest.Name = <<>>
               \/ ShDir.manifest.Version = <<>>
               \/ ShDir.manifest.CommandName = <<>>
            THEN sh_pc' = "loop"
            ELSE sh_pc' = "check"

\* if check_oci_tag_exists ...; then ((pushed_count++)); continue; fi
shCheck ==
    /\ sh_pc = "check"
    /\ UNCHANGED <<storeVars, sh_i, shRest>>
    /\ \E fetchFails \in BOOLEAN :
          LET run == [shRun EXCEPT !.checks = @ + 1] IN
          IF check_oci_tag_exists(registry, ShRef, ShVersion, fetchFails)
          THEN /\ pushed_count' = pushed_count + 1
               /\ IF IncrementStatus(pushed_count) # 0
                  THEN EndSh(1, "errexit", run)
                  ELSE /\ sh_pc' = "loop"
                       /\ shRun' = run
                       /\ UNCHANGED shRuns
          ELSE /\ UNCHANGED <<pushed_count, shRuns>>
               /\ shRun' = run
               /\ sh_pc' = "archive"

\* temp_dir=$(mktemp -d) and the subshell that runs tar
shArchive ==
    /\ sh_pc = "archive"
    /\ UNCHANGED <<packageDirs, registry, loggedIn, sh_i, pushed_count,
                   shRest>>
    /\ tempDir' = TRUE
    /\ \/ /\ sh_pc' = "push"
          /\ UNCHANGED <<shRun, shRuns>>
       \/ EndSh(1, "tar", [shRun EXCEPT !.errorAt = sh_i])

\* if "${push_cmd[@]}"; then ... else log_error ...; fi; rm -rf "$temp_dir"
shPush ==
    /\ sh_pc = "push"
    /\ UNCHANGED <<packageDirs, loggedIn, sh_i, pushed_count, shRuns,
                   shRest>>
    /\ \/ /\ registry' = orasPushReg(registry, ShRef, ShVersion,
                                     ShDir.folder)
          /\ shRun' = [shRun EXCEPT !.pushes = @ + 1]
          /\ sh_pc' = "tag"
          /\ UNCHANGED tempDir
       \/ /\ UNCHANGED registry
          /\ shRun' = [shRun EXCEPT
                          !.errorAt = IF @ = 0 THEN sh_i ELSE @]
          /\ tempDir' = FALSE
          /\ sh_pc' = "loop"

\* oras tag ... latest (a failure is only a warning), ((pushed_count++)),
\* rm -rf "$temp_dir"
shTag ==
    /\ sh_pc = "tag"
    /\ UNCHANGED <<packageDirs, loggedIn, sh_i, shRest>>
    /\ pushed_count' = pushed_count + 1
    /\ \E tagged \in BOOLEAN :
          LET run == IF tagged THEN [shRun EXCEPT !.tags = @ + 1]
                     ELSE shRun IN
          /\ registry' = IF tagged
                         THEN orasTagReg(registry, ShRef, ShVersion,
                                         LatestTag)
                         ELSE registry
          /\ IF IncrementStatus(pushed_count) # 0
             THEN /\ UNCHANGED tempDir
                  /\ EndSh(1, "errexit", run)
             ELSE /\ tempDir' = FALSE
                  /\ shRun' = run
                  /\ sh_pc' = "loop"
                  /\ UNCHANGED shRuns

\* oras logout ... || true, the summary and the exit status
shLogout ==
    /\ sh_pc = "logout"
    /\ UNCHANGED <<packageDirs, registry, tempDir, sh_i, pushed_count,
                   shRest>>
    /\ loggedIn' \in {FALSE, loggedIn}
    /\ IF pushed_count = 0
       THEN EndSh(1, "no packages were processed", shRun)
       ELSE EndSh(0, "exit", shRun)

ShNext ==
    \/ shStart
    \/ shLogin
    \/ shLoopHead
    \/ shFields
    \/ shCheck
    \/ shArchive
    \/ shPush
    \/ shTag
    \/ shLogout

(***************************************************************************)
(* Plugin manifests and the plugins directory                              *)
(***************************************************************************)
PluginCommand(name, type, executable) ==
    [name |-> name, type |-> type, executable |-> executable]

\* An absent field is the empty string, as `// ""` of get_manifest_field
\* gives it; _metadata holds author and license
PluginManifest(pkgName, version, cmds, author, license) ==
    [pkgName |-> pkgName, version |-> version, cmds |-> cmds,
     author |-> author, license |-> license]

\* .cmds[0]
FirstCommand(manifest) ==
    IF Len(manifest.cmds) > 0 THEN manifest.cmds[1]
    ELSE PluginCommand(<<>>, "", "")

\* get_manifest_field <manifest_file> <field_name>
get_manifest_field(manifest, field_name) ==
    CASE field_name = "pkgName" -> manifest.pkgName
      [] field_name = "version" -> manifest.version
      [] field_name = "author" -> manifest.author
      [] field_name = "license" -> manifest.license
      [] field_name = "command_name" -> FirstCommand(manifest).name
      [] field_name = "command_type" -> FirstCommand(manifest).type
      [] field_name = "executable" -> FirstCommand(manifest).executable
      [] field_name = "cmds_count" -> Len(manifest.cmds)

(***************************************************************************)
(* validate_semver (scripts/common.sh): the regular expression             *)
(*   ^[0-9]+\.[0-9]+\.[0-9]+(-[a-zA-Z0-9._-]+)?(\+[a-zA-Z0-9._-]+)?$       *)
(* as the automaton that scans the string from its first character         *)
(***************************************************************************)
\* [a-zA-Z0-9._-]
IsIdentChar(c) ==
    IsLower(c) \/ IsUpper(c) \/ IsDigit(c) \/ c \in {".", "_", "-"}

SemverStep(q, c) ==
    CASE q = "start" -> IF IsDigit(c) THEN "major" ELSE "fail"
      [] q = "major" -> IF IsDigit(c) THEN "major"
                        ELSE IF c = "." THEN "dot1" ELSE "fail"
      [] q = "dot1"  -> IF IsDigit(c) THEN "minor" ELSE "fail"
      [] q = "minor" -> IF IsDigit(c) THEN "minor"
                        ELSE IF c = "." THEN "dot2" ELSE "fail"
      [] q = "dot2"  -> IF IsDigit(c) THEN "patch" ELSE "fail"
      [] q = "patch" -> IF IsDigit(c) THEN "patch"
                        ELSE IF c = "-" THEN "dash"
                        ELSE IF c = "+" THEN "plus" ELSE "fail"
      [] q = "dash"  -> IF IsIdentChar(c) THEN "pre" ELSE "fail"
      [] q = "pre"   -> IF IsIdentChar(c) THEN "pre"
                        ELSE IF c = "+" THEN "plus" ELSE "fail"
      [] q = "plus"  -> IF IsIdentChar(c) THEN "build" ELSE "fail"
      [] q = "build" -> IF IsIdentChar(c) THEN "build" ELSE "fail"
      [] q = "fail"  -> "fail"

RECURSIVE SemverScan(_, _, _)
SemverScan(version, i, q) ==
    IF i > Len(version) THEN q
    ELSE SemverScan(version, i + 1, SemverStep(q, version[i]))

\* The same expression without the ^ anchor: a match may start anywhere
validate_semver_Unanchored(version) ==
    \E k \in 1..Len(version) :
        SemverScan(SubSeq(version, k, Len(version)), 1, "start")
            \in {"patch", "pre", "build"}

validate_semver(version) ==
    SemverScan(version, 1, "start") \in {"patch", "pre", "build"}

\* validate_command_name: ^[a-z0-9-]+$
validate_command_name(cmd_name) ==
    /\ Len(cmd_name) > 0
    /\ \A i \in DOMAIN cmd_name : IsNameChar(cmd_name[i])

(***************************************************************************)
(* validate-manifest.sh: the checks of one manifest, as the sequence of    *)
(* the log_error messages in the order the script prints them              *)
(***************************************************************************)
REQUIRED_FIELDS == <<"pkgName", "version">>

\* One round of `for field in "${REQUIRED_FIELDS[@]}"`
requiredFieldErrors(manifest, field) ==
    LET value == get_manifest_field(manifest, field)
    IN  IF value = <<>>
        THEN << [msg |-> "Missing required field: ", field |-> field] >>
        ELSE IF field = "version" /\ ~validate_semver(value)
             THEN << [msg |-> "Invalid version format: ", version |-> value] >>
             ELSE << >>

commandNameErrors(manifest) ==
    LET command_name == get_manifest_field(manifest, "command_name")
    IN  IF command_name = <<>>
        THEN << [msg |-> "First command missing 'name' field"] >>
        ELSE IF ~validate_command_name(command_name)
             THEN << [msg |-> "Invalid command name: ",
                      name |-> command_name] >>
             ELSE << >>

\* =~ ^(executable|group|system)$
commandTypeErrors(manifest) ==
    LET command_type == get_manifest_field(manifest, "command_type")
    IN  IF command_type = ""
        THEN << [msg |-> "First command missing 'type' field"] >>
        ELSE IF command_type \notin {"executable", "group", "system"}
             THEN << [msg |-> "Invalid command type: ",
                      type |-> command_type] >>
             ELSE << >>

executableErrors(manifest) ==
    IF /\ get_manifest_field(manifest, "command_type") = "executable"
       /\ get_manifest_field(manifest, "executable") = ""
    THEN << [msg |-> "Command type 'executable' requires 'executable' field"] >>
    ELSE << >>

commandErrors(manifest) ==
    IF get_manifest_field(manifest, "cmds_count") = 0
    THEN << [msg |->
         "Missing or empty 'cmds' array - at least one command required"] >>
    ELSE commandNameErrors(manifest) \o commandTypeErrors(manifest)
            \o executableErrors(manifest)

\* A validation that stops at the first rule that reports an error
manifestErrors_FirstOnly(manifest) ==
    LET all == requiredFieldErrors(manifest, REQUIRED_FIELDS[1])
                 \o requiredFieldErrors(manifest, REQUIRED_FIELDS[2])
                 \o commandErrors(manifest)
    IN  IF all = << >> THEN all ELSE << all[1] >>

manifestErrors(manifest) ==
    requiredFieldErrors(manifest, REQUIRED_FIELDS[1])
        \o requiredFieldErrors(manifest, REQUIRED_FIELDS[2])
        \o commandErrors(manifest)

has_errors(manifest) == manifestErrors(manifest) # << >>

(***************************************************************************)
(* validateManifest (src/utils/manifest.ts).  The file is not part of the  *)
(* sources; its rules are those its tests (utils/manifest.test.ts) pin:    *)
(* the messages for a missing pkgName, an invalid version, an empty cmds   *)
(* array and a command name with invalid characters, the warning about a   *)
(* missing author, and a result without errors for a first command of type *)
(* executable that names no executable.                                    *)
(***************************************************************************)
\* MAJOR.MINOR.PATCH[-prerelease][+build]: three runs of digits separated by
\* dots, then an optional "-" with a non-empty prerelease and an optional
\* "+" with a non-empty build part
SemverForm(s) ==
    LET n == Len(s)
        Digits(a, b) == a <= b /\ \A i \in a..b : IsDigit(s[i])
        Ident(a, b) == a <= b /\ \A i \in a..b : IsIdentChar(s[i])
    IN  \E d1, d2, e \in 1..n :
          /\ d1 < d2 /\ d2 < e
          /\ s[d1] = "." /\ s[d2] = "."
          /\ Digits(1, d1 - 1) /\ Digits(d1 + 1, d2 - 1) /\ Digits(d2 + 1, e)
          /\ \/ e = n
             \/ /\ e < n /\ s[e + 1] = "-"
                /\ \/ Ident(e + 2, n)
                   \/ \E p \in (e + 3)..n :
                        /\ s[p] = "+"
                        /\ Ident(e + 2, p - 1)
                        /\ Ident(p + 1, n)
             \/ /\ e < n /\ s[e + 1] = "+" /\ Ident(e + 2, n)

validateManifest(manifest) ==
    LET errors ==
            (IF manifest.pkgName = <<>>
             THEN << [msg |-> "Missing required field: ",
                      field |-> "pkgName"] >>
             ELSE << >>)
         \o (IF manifest.version = <<>>
             THEN << [msg |-> "Missing required field: ",
                      field |-> "version"] >>
             ELSE IF ~SemverForm(manifest.version)
                  THEN << [msg |-> "Invalid version format: ",
                           version |-> manifest.version] >>
                  ELSE << >>)
         \o (IF Len(manifest.cmds) = 0
             THEN << [msg |->
               "Missing required field: cmds (must have at least one command)"] >>
             ELSE IF ~validate_command_name(manifest.cmds[1].name)
                  THEN << [msg |-> "invalid characters",
                           name |-> manifest.cmds[1].name] >>
                  ELSE << >>)
        warnings ==
            (IF manifest.author = "" THEN << "author" >> ELSE << >>)
         \o (IF manifest.license = "" THEN << "license" >> ELSE << >>)
    IN  [valid |-> errors = << >>, errors |-> errors, warnings |-> warnings]

(***************************************************************************)
(* The plugins directory: sample subdirectories.  file says what           *)
(* manifest.mf is: "ok" (an object), "unparsable" or "missing"             *)
(***************************************************************************)
VBad == <<"v", "1", ".", "0", ".", "0">>

PluginDir(id, folder, file, manifest) ==
    [id |-> id, folder |-> folder, file |-> file, manifest |-> manifest]

EmptyManifest == PluginManifest(<<>>, <<>>, <<>>, "", "")

SampleDirs ==
    { PluginDir("d1", <<"a">>, "ok",
          PluginManifest(<<"a">>, V100,
              << PluginCommand(<<"a">>, "executable", "bin/a") >>,
              "me", "MIT")),
      PluginDir("d2", <<"b">>, "ok",
          PluginManifest(<<"B">>, V110,
              << PluginCommand(<<"b">>, "group", "") >>, "", "")),
      PluginDir("d3", <<"c">>, "ok",
          PluginManifest(<<"c">>, V100,
              << PluginCommand(<<"c">>, "executable", "") >>, "me", "")),
      PluginDir("d4", <<"d">>, "ok",
          PluginManifest(<<>>, VBad, << >>, "", "")),
      PluginDir("d5", <<"e">>, "unparsable", EmptyManifest),
      PluginDir("d6", <<"f">>, "missing", EmptyManifest) }

\* The sample subdirectories that hold a README.md
ReadmeDirs == {"d1", "d2", "d4", "m"}

\* Listings of distinct subdirectories, at most MaxPkgs long
PluginListings ==
    UNION { { s \in [1..n -> SampleDirs] :
                \A i, j \in 1..n : i # j => s[i].id # s[j].id }
            : n \in 0..MaxPkgs }

\* findPluginDirectories: the subdirectories that hold a manifest file
findPluginDirectories(dir) ==
    SelectSeq(dir, LAMBDA d : d.file # "missing")

(***************************************************************************)
(* Batch validation: validatePlugins (src/validate.ts) and                 *)
(* validate-manifest.sh                                                    *)
(***************************************************************************)
ValInit(impls) ==
    /\ val_impl \in impls
    /\ val_pc = "idle"
    /\ val_i = 0
    /\ validPlugins = << >>
    /\ invalidPlugins = << >>
    /\ totalErrors = 0
    /\ totalWarnings = 0
    /\ SUMMARY_COUNTERS = << >>
    /\ validated_dirs = << >>
    /\ valLog = << >>
    /\ valExit = "none"

\* The validator is called: on its own, or by step 1 of run()
ValCalled ==
    /\ val_pc = "idle"
    /\ valExit = "none"
    /\ \/ target \in {"validate", "manifest"}
       \/ target = "run" /\ run_pc = "validate"

\* const pluginDirs = await findPluginDirectories(pluginsDirectory)
pluginDirs == findPluginDirectories(pluginsDirectory)

\* validatePlugins up to the loop: an empty list is an exception
validatePlugins ==
    /\ val_impl = "ts"
    /\ ValCalled
    /\ IF Len(pluginDirs) = 0
       THEN val_pc' = "done" /\ valExit' = "throw"
       ELSE val_pc' = "loop" /\ valExit' = valExit
    /\ UNCHANGED <<val_impl, val_i, validPlugins, invalidPlugins, totalErrors,
                   totalWarnings, SUMMARY_COUNTERS, validated_dirs, valLog,
                   valRest>>

\* One round of `for (const pluginDir of pluginDirs)`: readManifest throws
\* for a manifest that cannot be parsed, and the catch block counts it
validatePluginDir ==
    /\ val_impl = "ts"
    /\ val_pc = "loop"
    /\ val_i < Len(pluginDirs)
    /\ val_i' = val_i + 1
    /\ LET pluginDir == pluginDirs[val_i + 1]
           pluginName == pluginDir.folder
           validation == validateManifest(pluginDir.manifest)
       IN  IF pluginDir.file = "ok"
           THEN /\ IF Len(validation.errors) > 0
                   THEN /\ invalidPlugins' = Append(invalidPlugins, pluginName)
                        /\ totalErrors' = totalErrors + Len(validation.errors)
                        /\ UNCHANGED validPlugins
                   ELSE /\ validPlugins' = Append(validPlugins, pluginName)
                        /\ UNCHANGED <<invalidPlugins, totalErrors>>
                /\ totalWarnings' = totalWarnings + Len(validation.warnings)
                /\ valLog' = Append(valLog, [dir |-> pluginDir,
                                             errors |-> validation.errors,
                                             warnings |-> validation.warnings,
                                             valid |-> validation.valid])
           ELSE /\ invalidPlugins' = Append(invalidPlugins, pluginName)
                /\ totalErrors' = totalErrors + 1
                /\ valLog' = Append(valLog, [dir |-> pluginDir,
                          errors |-> << [msg |-> "Failed to validate"] >>,
                          warnings |-> << >>,
                          valid |-> FALSE])
                /\ UNCHANGED <<validPlugins, totalWarnings>>
    /\ UNCHANGED <<val_impl, val_pc, SUMMARY_COUNTERS, validated_dirs, valExit,
                   valRest>>

\* After the loop: the summary, the outputs and the returned result
validateSummary ==
    /\ val_impl = "ts"
    /\ val_pc = "loop"
    /\ val_i = Len(pluginDirs)
    /\ val_pc' = "done"
    /\ valExit' = "return"
    /\ UNCHANGED <<val_impl, val_i, validPlugins, invalidPlugins, totalErrors,
                   totalWarnings, SUMMARY_COUNTERS, validated_dirs, valLog,
                   valRest>>

TsValNext ==
    \/ validatePlugins
    \/ validatePluginDir
    \/ validateSummary

\* increment_counter <name>
increment_counter(counters, counter_name) ==
    [k \in DOMAIN counters \cup {counter_name} |->
        IF k = counter_name
        THEN (IF k \in DOMAIN counters THEN counters[k] ELSE 0) + 1
        ELSE counters[k]]

\* get_counter <name>
get_counter(counters, counter_name) ==
    IF counter_name \in DOMAIN counters THEN counters[counter_name] ELSE 0

\* validate-manifest.sh up to the loop: init_summary, validated_dirs=()
shValidateStart ==
    /\ val_impl = "sh"
    /\ ValCalled
    /\ val_pc' = "loop"
    /\ SUMMARY_COUNTERS' = << >>
    /\ validated_dirs' = << >>
    /\ UNCHANGED <<val_impl, val_i, validPlugins, invalidPlugins, totalErrors,
                   totalWarnings, valLog, valExit, valRest>>

\* Check for README.md: its absence is a warning; the metadata fields are
\* only displayed when present
readmeWarnings(plugin_dir) ==
    IF plugin_dir.id \in ReadmeDirs THEN << >>
    ELSE << "No README.md found (recommended)" >>

\* A round that ends the script with status 1 when the plugin is invalid
shValidatePlugin_ExitOnInvalid ==
    /\ val_impl = "sh"
    /\ val_pc = "loop"
    /\ val_i < Len(pluginsDirectory)
    /\ val_i' = val_i + 1
    /\ LET plugin_dir == pluginsDirectory[val_i + 1]
           total == increment_counter(SUMMARY_COUNTERS, "Total plugins")
           errors ==
               IF plugin_dir.file = "missing"
               THEN << [msg |-> "No manifest.mf found"] >>
               ELSE IF plugin_dir.file = "unparsable"
                    THEN << [msg |-> "Invalid JSON/YAML format"] >>
                    ELSE manifestErrors(plugin_dir.manifest)
           warnings ==
               IF plugin_dir.file = "ok" THEN readmeWarnings(plugin_dir)
               ELSE << >>
       IN  /\ valLog' = Append(valLog, [dir |-> plugin_dir, errors |-> errors,
                                        warnings |-> warnings,
                                        valid |-> errors = << >>])
           /\ IF errors = << >>
              THEN /\ SUMMARY_COUNTERS' =
                          increment_counter(total, "Valid plugins")
                   /\ validated_dirs' = Append(validated_dirs, plugin_dir.folder)
                   /\ UNCHANGED <<val_pc, valExit>>
              ELSE /\ SUMMARY_COUNTERS' =
                          increment_counter(total, "Invalid plugins")
                   /\ UNCHANGED validated_dirs
                   /\ val_pc' = "done"
                   /\ valExit' = "exit 1"
    /\ UNCHANGED <<val_impl, validPlugins, invalidPlugins, totalErrors,
                   totalWarnings, valRest>>

\* One round of `for plugin_dir in "$PLUGINS_DIR"/*/`: a missing or
\* unparsable manifest counts as invalid and the loop continues
shValidatePlugin ==
    /\ val_impl = "sh"
    /\ val_pc = "loop"
    /\ val_i < Len(pluginsDirectory)
    /\ val_i' = val_i + 1
    /\ LET plugin_dir == pluginsDirectory[val_i + 1]
           total == increment_counter(SUMMARY_COUNTERS, "Total plugins")
           errors ==
               IF plugin_dir.file = "missing"
               THEN << [msg |-> "No manifest.mf found"] >>
               ELSE IF plugin_dir.file = "unparsable"
                    THEN << [msg |-> "Invalid JSON/YAML format"] >>
                    ELSE manifestErrors(plugin_dir.manifest)
           warnings ==
               IF plugin_dir.file = "ok" THEN readmeWarnings(plugin_dir)
               ELSE << >>
       IN  /\ valLog' = Append(valLog, [dir |-> plugin_dir, errors |-> errors,
                                        warnings |-> warnings,
                                        valid |-> errors = << >>])
           /\ IF errors = << >>
              THEN /\ SUMMARY_COUNTERS' =
                          increment_counter(total, "Valid plugins")
                   /\ validated_dirs' = Append(validated_dirs, plugin_dir.folder)
              ELSE /\ SUMMARY_COUNTERS' =
                          increment_counter(total, "Invalid plugins")
                   /\ UNCHANGED validated_dirs
    /\ UNCHANGED <<val_impl, val_pc, validPlugins, invalidPlugins, totalErrors,
                   totalWarnings, valExit, valRest>>

\* After the loop: the summary and the exit status
shValidateExit ==
    /\ val_impl = "sh"
    /\ val_pc = "loop"
    /\ val_i = Len(pluginsDirectory)
    /\ val_pc' = "done"
    /\ valExit' = IF get_counter(SUMMARY_COUNTERS, "Invalid plugins") > 0
                  THEN "exit 1" ELSE "exit 0"
    /\ UNCHANGED <<val_impl, val_i, validPlugins, invalidPlugins, totalErrors,
                   totalWarnings, SUMMARY_COUNTERS, validated_dirs, valLog,
                   valRest>>

ShValNext ==
    \/ shValidateStart
    \/ shValidatePlugin
    \/ shValidateExit

(***************************************************************************)
(* Packaging: packagePlugins (src/package.ts) and package-plugin.sh        *)
(***************************************************************************)
TarGzExt == <<".", "t", "a", "r", ".", "g", "z">>
ZipExt == <<".", "z", "i", "p">>
Sha256Ext == <<".", "s", "h", "a", "2", "5", "6">>
JsonExt == <<".", "j", "s", "o", "n">>

\* A file is written: it replaces a file of the same name
WriteFile(files, f) == { g \in files : g.name # f.name } \cup {f}

\* createArchive: createTarGz wraps the content in a directory named
\* baseName, createZip stores the content without a root directory
ArchiveFile(name, sourceDir, baseName, fmt) ==
    [name |-> name, kind |-> "archive", content |-> sourceDir.id,
     root |-> IF fmt = "tar.gz" THEN baseName ELSE << >>]

\* saveChecksumFile: `${checksum}  ${path.basename(filePath)}\n`
saveChecksumFile(files, archive) ==
    WriteFile(files, [name |-> archive.name \o Sha256Ext, kind |-> "sha256",
                      checksum |-> archive.content, separator |-> "  ",
                      basename |-> archive.name])

PkgInit(impls, formats) ==
    /\ pk_impl \in impls
    /\ format \in formats
    /\ pk_pc = "idle"
    /\ pk_i = 0
    /\ pk_packages = << >>
    /\ outputFiles = {}
    /\ pkLog = << >>
    /\ pkExit = "none"

\* The packager is called: on its own, or by step 2 of run()
PkgCalled ==
    /\ pk_pc = "idle"
    /\ pkExit = "none"
    /\ \/ target = "package"
       \/ target = "run" /\ run_pc = "package"

\* packagePlugins up to the loop: an empty list is an exception
packagePlugins ==
    /\ pk_impl = "ts"
    /\ PkgCalled
    /\ IF Len(pluginDirs) = 0
       THEN pk_pc' = "done" /\ pkExit' = "throw"
       ELSE pk_pc' = "loop" /\ pkExit' = pkExit
    /\ UNCHANGED <<pk_impl, format, pk_i, pk_packages, outputFiles, pkLog,
                   pkgRest>>

\* One round of `for (const pluginDir of pluginDirs)`.  readManifest throws
\* for a manifest that cannot be parsed and createArchive may fail; the
\* catch block logs the error and throws it again
packagePluginDir ==
    /\ pk_impl = "ts"
    /\ pk_pc = "loop"
    /\ pk_i < Len(pluginDirs)
    /\ pk_i' = pk_i + 1
    /\ \E archiveFails \in BOOLEAN :
         LET pluginDir == pluginDirs[pk_i + 1]
             pluginName == pluginDir.folder
             manifest == pluginDir.manifest
             extension == IF format = "tar.gz" THEN TarGzExt ELSE ZipExt
             archiveName == manifest.pkgName \o Hyphen \o manifest.version
                               \o extension
             archive == ArchiveFile(archiveName, pluginDir, pluginName, format)
         IN  IF pluginDir.file # "ok" \/ archiveFails
             THEN /\ pkLog' = Append(pkLog, [dir |-> pluginDir,
                                             outcome |-> "error"])
                  /\ pk_pc' = "done"
                  /\ pkExit' = "throw"
                  /\ UNCHANGED <<pk_packages, outputFiles>>
             ELSE /\ outputFiles' =
                        saveChecksumFile(WriteFile(outputFiles, archive),
                                         archive)
                  /\ pk_packages' = Append(pk_packages,
                        [name |-> manifest.pkgName,
                         version |-> manifest.version,
                         archivePath |-> archiveName,
                         checksum |-> archive.content])
                  /\ pkLog' = Append(pkLog, [dir |-> pluginDir,
                                             outcome |-> "packaged"])
                  /\ UNCHANGED <<pk_pc, pkExit>>
    /\ UNCHANGED <<pk_impl, format, pkgRest>>

\* After the loop: the summary, the outputs and the returned result
packageSummary ==
    /\ pk_impl = "ts"
    /\ pk_pc = "loop"
    /\ pk_i = Len(pluginDirs)
    /\ pk_pc' = "done"
    /\ pkExit' = "return"
    /\ UNCHANGED <<pk_impl, format, pk_i, pk_packages, outputFiles, pkLog,
                   pkgRest>>

TsPkgNext ==
    \/ packagePlugins
    \/ packagePluginDir
    \/ packageSummary

\* package-plugin.sh up to the loop: ensure_directory, packaged_artifacts=()
shPackageStart ==
    /\ pk_impl = "sh"
    /\ PkgCalled
    /\ pk_pc' = "loop"
    /\ pk_packages' = << >>
    /\ UNCHANGED <<pk_impl, format, pk_i, outputFiles, pkLog, pkExit, pkgRest>>

\* One round of `for plugin_dir in "$PLUGINS_DIR"/*/`.  A directory without
\* a complete manifest is skipped; under `set -e` a failing cp or tar ends
\* the script at once
shPackagePlugin ==
    /\ pk_impl = "sh"
    /\ pk_pc = "loop"
    /\ pk_i < Len(pluginsDirectory)
    /\ pk_i' = pk_i + 1
    /\ \E archiveFails \in BOOLEAN :
         LET plugin_dir == pluginsDirectory[pk_i + 1]
             manifest == IF plugin_dir.file = "ok" THEN plugin_dir.manifest
                         ELSE EmptyManifest
             plugin_name == get_manifest_field(manifest, "pkgName")
             plugin_version == get_manifest_field(manifest, "version")
             command_name == get_manifest_field(manifest, "command_name")
             safe_name == sanitize_name(command_name)
             archive_name == safe_name \o Hyphen \o plugin_version
             archive_file == ArchiveFile(archive_name \o TarGzExt, plugin_dir,
                                         archive_name, "tar.gz")
             Log(outcome) == Append(pkLog, [dir |-> plugin_dir,
                                            outcome |-> outcome])
         IN  IF \/ plugin_dir.file = "missing"
                \/ plugin_name = << >>
                \/ plugin_version = << >>
                \/ command_name = << >>
             THEN /\ pkLog' = Log("skipped")
                  /\ UNCHANGED <<pk_pc, pk_packages, outputFiles, pkExit>>
             ELSE IF format \notin {"tar.gz", "both"}
             THEN /\ pkLog' = Log("none")
                  /\ UNCHANGED <<pk_pc, pk_packages, outputFiles, pkExit>>
             ELSE IF archiveFails
             THEN /\ pkLog' = Log("error")
                  /\ pk_pc' = "done"
                  /\ pkExit' = "errexit"
                  /\ UNCHANGED <<pk_packages, outputFiles>>
             ELSE /\ outputFiles' =
                        WriteFile(
                          WriteFile(
                            WriteFile(outputFiles, archive_file),
                            [name |-> archive_file.name \o Sha256Ext,
                             kind |-> "sha256",
                             checksum |-> archive_file.content,
                             separator |-> "", basename |-> << >>]),
                          [name |-> archive_name \o JsonExt, kind |-> "json",
                           command |-> command_name,
                           displayName |-> plugin_name,
                           version |-> plugin_version,
                           archive |-> archive_file.name,
                           checksum |-> archive_file.content])
                  /\ pk_packages' = Append(pk_packages, archive_file.name)
                  /\ pkLog' = Log("packaged")
                  /\ UNCHANGED <<pk_pc, pkExit>>
    /\ UNCHANGED <<pk_impl, format, pkgRest>>

\* After the loop: the summary; no artifact at all is a failure
shPackageExit ==
    /\ pk_impl = "sh"
    /\ pk_pc = "loop"
    /\ pk_i = Len(pluginsDirectory)
    /\ pk_pc' = "done"
    /\ pkExit' = IF Len(pk_packages) = 0 THEN "exit 1" ELSE "exit 0"
    /\ UNCHANGED <<pk_impl, format, pk_i, pk_packages, outputFiles, pkLog,
                   pkgRest>>

ShPkgNext ==
    \/ shPackageStart
    \/ shPackagePlugin
    \/ shPackageExit

(***************************************************************************)
(* run, the entry point of the action: validate, package, push to the      *)
(* registry, generate the documentation                                    *)
(***************************************************************************)
\* The inputs of the action: ociRegistry, ociCredentials and githubAccess
\* say whether the registry, both of user name and token, and both of
\* GitHub token and repository are given
Inputs ==
    [validateOnly : BOOLEAN,
     packageFormat : {"zip", "tar.gz", "oci", "both"},
     ociRegistry : BOOLEAN,
     ociCredentials : BOOLEAN,
     generateDocs : BOOLEAN,
     githubAccess : BOOLEAN]

RunInit(ins) ==
    /\ inputs \in ins
    /\ run_pc = "idle"
    /\ executed = << >>
    /\ failed = FALSE

\* run() is entered; step 1 calls validatePlugins
run ==
    /\ target = "run"
    /\ run_pc = "idle"
    /\ run_pc' = "validate"
    /\ executed' = Append(executed, "validate")
    /\ UNCHANGED <<runRest, inputs, failed>>

\* A step that goes on to packaging whatever the validation found
runValidated_IgnoreInvalid ==
    /\ run_pc = "validate"
    /\ val_pc = "done"
    /\ IF valExit = "throw"
       THEN run_pc' = "done" /\ failed' = TRUE
       ELSE IF inputs.validateOnly
            THEN run_pc' = "done" /\ failed' = failed
            ELSE run_pc' = "step 2" /\ failed' = failed
    /\ UNCHANGED <<runRest, inputs, executed>>

\* validatePlugins has ended: an exception or an invalid plugin fails the
\* run, validate-only mode ends it
runValidated ==
    /\ run_pc = "validate"
    /\ val_pc = "done"
    /\ IF valExit = "throw" \/ Len(invalidPlugins) > 0
       THEN run_pc' = "done" /\ failed' = TRUE
       ELSE IF inputs.validateOnly
            THEN run_pc' = "done" /\ failed' = failed
            ELSE run_pc' = "step 2" /\ failed' = failed
    /\ UNCHANGED <<runRest, inputs, executed>>

\* Step 2: packagePlugins for the formats tar.gz and both
runPackage ==
    /\ run_pc = "step 2"
    /\ IF inputs.packageFormat \in {"tar.gz", "both"}
       THEN run_pc' = "package" /\ executed' = Append(executed, "package")
       ELSE run_pc' = "step 3" /\ executed' = executed
    /\ UNCHANGED <<runRest, inputs, failed>>

\* packagePlugins has ended
runPackaged ==
    /\ run_pc = "package"
    /\ pk_pc = "done"
    /\ IF pkExit = "throw"
       THEN run_pc' = "done" /\ failed' = TRUE
       ELSE run_pc' = "step 3" /\ failed' = failed
    /\ UNCHANGED <<runRest, inputs, executed>>

\* Step 3: pushToOCI for the formats oci and both when a registry is given;
\* missing credentials are an error
runPushToOCI ==
    /\ run_pc = "step 3"
    /\ IF inputs.packageFormat \in {"oci", "both"} /\ inputs.ociRegistry
       THEN IF ~inputs.ociCredentials
            THEN run_pc' = "done" /\ failed' = TRUE /\ executed' = executed
            ELSE /\ run_pc' = "push"
                 /\ executed' = Append(executed, "push")
                 /\ failed' = failed
       ELSE run_pc' = "step 4" /\ failed' = failed /\ executed' = executed
    /\ UNCHANGED <<runRest, inputs>>

\* pushToOCI has ended
runPushed ==
    /\ run_pc = "push"
    /\ oci_pc = "idle"
    /\ Len(ociRuns) = 1
    /\ IF ~ociRuns[1].ok
       THEN run_pc' = "done" /\ failed' = TRUE
       ELSE run_pc' = "step 4" /\ failed' = failed
    /\ UNCHANGED <<runRest, inputs, executed>>

\* Step 4: generateDocumentation, skipped with a warning without a token or
\* a repository; it returns or throws
runGenerateDocs ==
    /\ run_pc = "step 4"
    /\ run_pc' = "done"
    /\ IF inputs.generateDocs /\ inputs.githubAccess
       THEN /\ executed' = Append(executed, "docs")
            /\ failed' \in BOOLEAN
       ELSE /\ executed' = executed
            /\ failed' = failed
    /\ UNCHANGED <<runRest, inputs>>

RunSteps ==
    \/ run
    \/ runValidated
    \/ runPackage
    \/ runPackaged
    \/ runPushToOCI
    \/ runPushed
    \/ runGenerateDocs

(***************************************************************************)
(* Sample manifests for the checks of a single manifest                    *)
(***************************************************************************)
VersionSamples ==
    { << >> } \cup
    { p \o c \o r \o b \o x :
        p \in { << >>, <<"v">> },
        c \in { V100, <<"1", ".", "0">>, <<"1", ".", ".", "0">>,
                <<"1", "0", ".", "2", ".", "3">>,
                <<"1", ".", "0", ".", "0", ".", "0">>,
                <<"1", ".", "a", ".", "0">> },
        r \in { << >>, <<"-">>, <<"-", "b", "e", "t", "a", ".", "1">>,
                <<"-", "a", "_", "B">> },
        b \in { << >>, <<"+">>, <<"+", "b", "1">>, <<"+", "b", "-", "1">>,
                <<"+", "a", "+", "b">> },
        x \in { << >>, <<"!">> } }

CommandSamples ==
    { << >> } \cup
    { << PluginCommand(n, t, e) >> :
        n \in { << >>, <<"a", "-", "1">>, <<"A">>, <<"a", "_">> },
        t \in { "", "executable", "alias", "group", "system", "starlark" },
        e \in { "", "bin/a" } }
    \cup { << PluginCommand(<<"a">>, "group", ""),
              PluginCommand(<<"B">>, "other", "") >> }

ManifestSamples ==
    { PluginManifest(n, v, c, "", "") :
        n \in { << >>, <<"a">> }, v \in VersionSamples, c \in CommandSamples }

(***************************************************************************)
(* Calls of the utility functions: one call per behaviour, on sample       *)
(* arguments                                                               *)
(***************************************************************************)
\* Strings of at most n characters of the alphabet
Strings(alphabet, n) == UNION { [1..k -> alphabet] : k \in 0..n }

NameSamples == Strings({"n", "A", "1", "-", "_", " ", "\t", "@"}, MaxName)

\* Archive file names: `${pkgName}-${version}${extension}` of the packagers
\* for sample names and versions, and other file names of a release
ArchiveNameSamples ==
    { <<"a">>,
      <<"a", "1">>,
      <<"m", "y", "-", "t", "e", "s", "t", "-", "p", "l", "u", "g", "i", "n">>,
      <<"a", "-", "1">> }

ArchiveVersionSamples ==
    { <<"1", ".", "0", ".", "0">>,
      <<"2", ".", "1", ".", "3">>,
      <<"1", "0", ".", "2", "0", ".", "3", "0">>,
      <<"1", ".", "0", ".", "0", "-", "b", "e", "t", "a", ".", "1">>,
      <<"1", ".", "0", ".", "0", "-", "0", ".", "3", ".", "7">>,
      <<"1", ".", "0", ".", "0", "+", "b", "1">>,
      <<"1", ".", "0", ".", "0", "-", "r", "c", ".", "1", "+", "b", "-", "1", ".", "2", ".", "3">> }

OtherFileSamples ==
    { <<"i", "n", "v", "a", "l", "i", "d", ".", "t", "a", "r", ".", "g", "z">>,
      <<"n", "o", "-", "v", "e", "r", "s", "i", "o", "n", ".", "t", "a", "r", ".", "g", "z">>,
      <<"a", "-", "1", ".", "0", ".", "t", "a", "r", ".", "g", "z">>,
      <<"-", "1", ".", "0", ".", "0", ".", "t", "a", "r", ".", "g", "z">>,
      <<"a", "-", "b", "1", ".", "0", ".", "0", ".", "z", "i", "p">>,
      <<"a", "_", "1", ".", "0", ".", "0", ".", "t", "a", "r", ".", "g", "z">>,
      <<"a", "-", "1", ".", ".", "0", ".", "z", "i", "p">>,
      <<"R", "E", "A", "D", "M", "E", ".", "m", "d">>,
      <<>> }

FileNameSamples ==
    { n \o <<"-">> \o v \o e :
        n \in ArchiveNameSamples, v \in ArchiveVersionSamples,
        e \in {TarGzExt, ZipExt} }
    \cup OtherFileSamples

\* The least position of a set of positions, 0 if there is none
First(positions) ==
    IF positions = {} THEN 0
    ELSE CHOOSE i \in positions : \A j \in positions : i <= j

\* String.prototype.replace(pattern, '') with a string pattern: the first
\* occurrence is removed
replace(s, pattern) ==
    LET n == Len(pattern)
        i == First({ k \in 1..(Len(s) - n + 1) :
                        SubSeq(s, k, k + n - 1) = pattern })
    IN  IF i = 0 THEN s ELSE SubSeq(s, 1, i - 1) \o SubSeq(s, i + n, Len(s))

\* ${filename%.tar.gz}: the suffix is removed
RemoveSuffix(s, suffix) ==
    LET n == Len(suffix)
    IN  IF Len(s) >= n /\ SubSeq(s, Len(s) - n + 1, Len(s)) = suffix
        THEN SubSeq(s, 1, Len(s) - n)
        ELSE s

\* s starts with \d+\.\d+\.\d+
StartsWithVersion(s) ==
    LET Digits(a, b) == a <= b /\ \A i \in a..b : IsDigit(s[i])
    IN  \E d1, d2, e \in 1..Len(s) :
            /\ d1 < d2 /\ d2 < e
            /\ s[d1] = "." /\ s[d2] = "."
            /\ Digits(1, d1 - 1) /\ Digits(d1 + 1, d2 - 1) /\ Digits(d2 + 1, e)

\* basename.match(/^(.+)-(\d+\.\d+\.\d+.*)$/): the first group is greedy, so
\* the name ends at the last hyphen that a version-like text follows
MatchArchiveName(basename) ==
    LET n == Len(basename)
        hyphens == { k \in 2..n : /\ basename[k] = "-"
                                  /\ StartsWithVersion(SubSeq(basename, k + 1, n)) }
    IN  IF hyphens = {} THEN [match |-> FALSE]
        ELSE LET k == CHOOSE i \in hyphens : \A j \in hyphens : j <= i
             IN  [match |-> TRUE, name |-> SubSeq(basename, 1, k - 1),
                  version |-> SubSeq(basename, k + 1, n)]

\* parsePluginArchiveName of utils/archive.ts; null is [match |-> FALSE]
parsePluginArchiveName(filename) ==
    MatchArchiveName(replace(filename, TarGzExt))

\* parse_plugin_from_archive of common.sh: "name|version" with status 0, or
\* a warning and status 1
parse_plugin_from_archive(filename) ==
    MatchArchiveName(RemoveSuffix(filename, TarGzExt))

\* ---- checksums ----
\* SHA-256 (FIPS 180-4) of a sequence of bytes, as crypto.createHash('sha256')
\* and sha256sum compute it
\* A 32-bit word is a tuple of 32 bits, the most significant first
\* A function on 1..n as a tuple
Tuple(f) == f \o << >>
Bits(n, w) == Tuple([i \in 1..w |-> (n \div (2 ^ (w - i))) % 2])
Half(x, from) ==
    LET RECURSIVE value(_, _)
        value(i, acc) == IF i > from + 15 THEN acc
                         ELSE value(i + 1, 2 * acc + x[i])
    IN  value(from, 0)
Word(hi, lo) == Bits(hi, 16) \o Bits(lo, 16)

\* Addition modulo 2^32 of the words of a list
Sum32(words) ==
    LET RECURSIVE total(_, _)
        total(k, from) == IF k > Len(words) THEN 0
                          ELSE Half(words[k], from) + total(k + 1, from)
        lo == total(1, 17)
        hi == total(1, 1) + (lo \div 65536)
    IN  Word(hi % 65536, lo % 65536)

ROTR(x, n) == Tuple([i \in 1..32 |-> x[((i - 1 - n) % 32) + 1]])
SHR(x, n) == Tuple([i \in 1..32 |-> IF i <= n THEN 0 ELSE x[i - n]])
Xor3(x, y, z) == Tuple([i \in 1..32 |-> (x[i] + y[i] + z[i]) % 2])
Ch(x, y, z) == Tuple([i \in 1..32 |-> IF x[i] = 1 THEN y[i] ELSE z[i]])
Maj(x, y, z) == Tuple([i \in 1..32 |-> IF x[i] + y[i] + z[i] >= 2 THEN 1 ELSE 0])
BigSigma0(x) == Xor3(ROTR(x, 2), ROTR(x, 13), ROTR(x, 22))
BigSigma1(x) == Xor3(ROTR(x, 6), ROTR(x, 11), ROTR(x, 25))
SmallSigma0(x) == Xor3(ROTR(x, 7), ROTR(x, 18), SHR(x, 3))
SmallSigma1(x) == Xor3(ROTR(x, 17), ROTR(x, 19), SHR(x, 10))

Sha256K ==
    << <<17034, 12184>>, <<28983, 17553>>, <<46528, 64463>>, <<59829, 56229>>,
       <<14678, 49755>>, <<23025, 4593>>, <<37439, 33444>>, <<43804, 24277>>,
       <<55303, 43672>>, <<4739, 23297>>, <<9265, 34238>>, <<21772, 32195>>,
       <<29374, 23924>>, <<32990, 45566>>, <<39900, 1703>>, <<49563, 61812>>,
       <<58523, 27073>>, <<61374, 18310>>, <<4033, 40390>>, <<9228, 41420>>,
       <<11753, 11375>>, <<19060, 33962>>, <<23728, 43484>>, <<30457, 35034>>,
       <<38974, 20818>>, <<43057, 50797>>, <<45059, 10184>>, <<48985, 32711>>,
       <<50912, 3059>>, <<54695, 37191>>, <<1738, 25425>>, <<5161, 10599>>,
       <<10167, 2693>>, <<11803, 8504>>, <<19756, 28156>>, <<21304, 3347>>,
       <<25866, 29524>>, <<30314, 2747>>, <<33218, 51502>>, <<37490, 11397>>,
       <<41663, 59553>>, <<43034, 26187>>, <<49739, 35696>>, <<51052, 20899>>,
       <<53650, 59417>>, <<54937, 1572>>, <<62478, 13701>>, <<4202, 41072>>,
       <<6564, 49430>>, <<7735, 27656>>, <<10056, 30540>>, <<13488, 48309>>,
       <<14620, 3251>>, <<20184, 43594>>, <<23452, 51791>>, <<26670, 28659>>,
       <<29839, 33518>>, <<30885, 25455>>, <<33992, 30740>>, <<36039, 520>>,
       <<37054, 65530>>, <<42064, 27883>>, <<48889, 41975>>, <<50801, 30962>> >>

Sha256H0 ==
    << <<27145, 58983>>, <<47975, 44677>>, <<15470, 62322>>, <<42319, 62778>>,
       <<20750, 21119>>, <<39685, 26764>>, <<8067, 55723>>, <<23520, 52505>> >>

\* The padded message: the bytes, 0x80, zero bytes up to 56 modulo 64, and
\* the length in bits as 64 bits
Pad(bytes) ==
    LET n == Len(bytes)
        zeros == (119 - n) % 64
    IN  bytes \o <<128>> \o [i \in 1..zeros |-> 0]
              \o <<0, 0, 0, 0>>
              \o << ((8 * n) \div 16777216) % 256, ((8 * n) \div 65536) % 256,
                    ((8 * n) \div 256) % 256, (8 * n) % 256 >>

\* The message schedule of a block extended by W[from..to]
RECURSIVE Schedule(_, _, _)
Schedule(w, from, to) ==
    IF from = to
    THEN Append(w, Sum32(<< SmallSigma1(w[to - 2]), w[to - 7],
                            SmallSigma0(w[to - 15]), w[to - 16] >>))
    ELSE LET mid == (from + to) \div 2
             half == Schedule(w, from, mid)
         IN  CASE Len(half) = mid -> Schedule(half, mid + 1, to)

\* One round on the working variables a..h
Round(s, w, t) ==
    LET T1 == Sum32(<< s[8], BigSigma1(s[5]), Ch(s[5], s[6], s[7]),
                       Word(Sha256K[t][1], Sha256K[t][2]), w[t] >>)
        T2 == Sum32(<< BigSigma0(s[1]), Maj(s[1], s[2], s[3]) >>)
    IN  << Sum32(<<T1, T2>>), s[1], s[2], s[3],
           Sum32(<<s[4], T1>>), s[5], s[6], s[7] >>

\* The rounds from..to, one after the other
RECURSIVE Rounds(_, _, _, _)
Rounds(s, w, from, to) ==
    IF from = to THEN Round(s, w, to)
    ELSE LET mid == (from + to) \div 2
             half == Rounds(s, w, from, mid)
         IN  CASE Len(half) = 8 -> Rounds(half, w, mid + 1, to)

RECURSIVE Blocks(_, _, _)
Blocks(h, padded, b) ==
    IF 64 * b >= Len(padded) THEN h
    ELSE LET w16 == Tuple([t \in 1..16 |->
                       Bits(padded[64 * b + 4 * t - 3], 8)
                       \o Bits(padded[64 * b + 4 * t - 2], 8)
                       \o Bits(padded[64 * b + 4 * t - 1], 8)
                       \o Bits(padded[64 * b + 4 * t], 8)])
             s == Rounds(h, Schedule(w16, 17, 64), 1, 64)
         IN  Blocks(Tuple([i \in 1..8 |-> Sum32(<<h[i], s[i]>>)]), padded,
                    b + 1)

HexDigits ==
    <<"0", "1", "2", "3", "4", "5", "6", "7",
      "8", "9", "a", "b", "c", "d", "e", "f">>

\* crypto.createHash('sha256').update(buffer).digest('hex')
sha256hex(bytes) ==
    LET h == Blocks(Tuple([i \in 1..8 |->
                                Word(Sha256H0[i][1], Sha256H0[i][2])]),
                    Pad(bytes), 0)
    IN  Tuple([k \in 1..64 |->
            LET x == h[((k - 1) \div 8) + 1]
                j == 4 * ((k - 1) % 8)
            IN  HexDigits[8 * x[j + 1] + 4 * x[j + 2] + 2 * x[j + 3]
                          + x[j + 4] + 1]])

\* generateChecksum of utils/archive.ts on a file with the given content;
\* next to it a checksum of the first byte of the file only
generateChecksum_FirstByte(fileBuffer) ==
    sha256hex(IF fileBuffer = << >> THEN << >> ELSE << fileBuffer[1] >>)

generateChecksum(fileBuffer) == sha256hex(fileBuffer)

\* verifyChecksum of utils/archive.ts
verifyChecksum(fileBuffer, expectedChecksum) ==
    generateChecksum(fileBuffer) = expectedChecksum

\* generate_checksum of common.sh on an existing file: the first field of
\* the line sha256sum prints
generate_checksum(content) == sha256hex(content)

\* verify_checksum of common.sh: the exit status
verify_checksum(content, expected_checksum) ==
    LET calculated_checksum == generate_checksum(content)
    IN  IF calculated_checksum = expected_checksum THEN 0 ELSE 1

\* File contents of at most MaxFile bytes
ByteSamples == {0, 1}
FileSamples == UNION { [1..n -> ByteSamples] : n \in 0..MaxFile }

\* A content and the same content with the byte at one position changed
OneByteChanges ==
    { <<c, [c EXCEPT ![i] = b]>> :
        <<c, i, b>> \in { x \in FileSamples \X (1..MaxFile) \X ByteSamples :
                            x[2] <= Len(x[1]) /\ x[1][x[2]] # x[3] } }

\* ---- templates ----
\* s has the pattern at position i
HasAt(s, i, pattern) ==
    /\ i + Len(pattern) - 1 <= Len(s)
    /\ SubSeq(s, i, i + Len(pattern) - 1) = pattern

\* s.split(pattern).join(value), and str.replace(pattern, value) of Python:
\* the occurrences of the pattern, found from left to right without overlap,
\* are replaced
RECURSIVE ReplaceAll(_, _, _)
ReplaceAll(s, pattern, value) ==
    IF s = << >> THEN << >>
    ELSE IF HasAt(s, 1, pattern)
    THEN value \o ReplaceAll(SubSeq(s, Len(pattern) + 1, Len(s)), pattern, value)
    ELSE << s[1] >> \o ReplaceAll(Tail(s), pattern, value)

\* `{{${key}}}`
Placeholder(key) == <<"{", "{">> \o key \o <<"}", "}">>

\* rendered.match(/\{\{([A-Z_]+)\}\}/g) is not null
HasUnreplaced(rendered) ==
    \E i, j \in DOMAIN rendered :
        /\ i + 2 < j
        /\ HasAt(rendered, i, <<"{", "{">>)
        /\ HasAt(rendered, j, <<"}", "}">>)
        /\ \A k \in (i + 2)..(j - 1) : IsUpper(rendered[k]) \/ rendered[k] = "_"

\* renderTemplate of utils/template.ts: the entries of variables are taken
\* one after the other, each on the text the entries before it left
RECURSIVE renderEntries(_, _, _)
renderEntries(rendered, variables, k) ==
    IF k > Len(variables) THEN rendered
    ELSE LET placeholder == Placeholder(variables[k].key)
             safeValue == IF variables[k].absent THEN << >>
                          ELSE variables[k].value
         IN  renderEntries(ReplaceAll(rendered, placeholder, safeValue),
                           variables, k + 1)

renderTemplate(template, variables) ==
    LET rendered == renderEntries(template, variables, 1)
    IN  [rendered |-> rendered, warned |-> HasUnreplaced(rendered)]

\* $(...): the line ends at the end of the output are removed
RECURSIVE CommandSubstitution(_)
CommandSubstitution(output) ==
    IF output # << >> /\ output[Len(output)] = "\n"
    THEN CommandSubstitution(SubSeq(output, 1, Len(output) - 1))
    ELSE output

\* template_replace of common.sh: echo "$template" and
\* echo -n "$replacement" write the two files, Python replaces
template_replace(template, placeholder, replacement) ==
    LET temp_template == IF echo(template) = template
                         THEN template \o <<"\n">> ELSE << >>
        temp_replacement == echo(replacement)
    IN  ReplaceAll(temp_template, placeholder, temp_replacement)

\* page_content=$(template_replace "$page_content" "{{KEY}}" "$value"), one
\* placeholder after the other
RECURSIVE page_content(_, _, _)
page_content(content, variables, k) ==
    IF k > Len(variables) THEN content
    ELSE page_content(
             CommandSubstitution(
                 template_replace(content, Placeholder(variables[k].key),
                                  variables[k].value)),
             variables, k + 1)

TemplateSamples ==
    { <<"x", "{", "{", "A", "}", "}", "y">>,
      <<"{", "{", "A", "}", "}", "{", "{", "A", "}", "}">>,
      <<"{", "{", "A", "}", "}", " ", "{", "{", "B", "}", "}">>,
      <<"{", "{", "B", "}", "}", "{", "{", "A", "}", "}">>,
      <<"{", "{", "C", "}", "}">>,
      <<"x", "y">>,
      <<>>,
      <<"{", "{", "{", "{", "A", "}", "}", "}", "}">>,
      <<"{", "{", "a", "}", "}", "{", "{", "A", "}", "}">>,
      <<"{", "{", "A", "}", "}", "\n">> }

\* Variables in the order of Object.entries; absent is an undefined or
\* null value
VariableSamples ==
    { << [key |-> <<"A">>, value |-> <<"1">>, absent |-> FALSE] >>,
      << [key |-> <<"A">>, value |-> <<"1">>, absent |-> FALSE], [key |-> <<"B">>, value |-> <<"2">>, absent |-> FALSE] >>,
      << [key |-> <<"A">>, value |-> <<"{", "{", "B", "}", "}">>, absent |-> FALSE], [key |-> <<"B">>, value |-> <<"2">>, absent |-> FALSE] >>,
      << [key |-> <<"B">>, value |-> <<"2">>, absent |-> FALSE], [key |-> <<"A">>, value |-> <<"{", "{", "B", "}", "}">>, absent |-> FALSE] >>,
      << [key |-> <<"A">>, value |-> <<>>, absent |-> TRUE] >>,
      << [key |-> <<"A">>, value |-> <<>>, absent |-> FALSE] >>,
      << [key |-> <<"A">>, value |-> <<"B">>, absent |-> FALSE], [key |-> <<"B">>, value |-> <<"2">>, absent |-> FALSE] >>,
      << [key |-> <<"A">>, value |-> <<"-", "n">>, absent |-> FALSE] >>,
      <<  >> }

\* The calls a behaviour can make
UtilCalls ==
    { [fn |-> f, args |-> <<x>>] :
        f \in {"sanitizeName", "sanitize_name"}, x \in NameSamples }
    \cup { [fn |-> f, args |-> <<x>>] :
        f \in {"parsePluginArchiveName", "parse_plugin_from_archive"},
        x \in FileNameSamples }
    \cup { [fn |-> f, args |-> x] :
        f \in {"verifyChecksum", "verify_checksum"},
        x \in { <<c, c>> : c \in FileSamples } \cup OneByteChanges }
    \cup { [fn |-> "renderTemplate", args |-> <<t, v>>] :
        t \in TemplateSamples, v \in VariableSamples }
    \cup { [fn |-> "template_replace", args |-> <<t, v>>] :
        t \in TemplateSamples,
        v \in { x \in VariableSamples :
                  \A k \in DOMAIN x : ~x[k].absent } }

Calls(f) == fn = f /\ ret = << >>
Returns(v) == ret' = <<v>> /\ UNCHANGED <<fn, args, utilRest>>

Call_sanitizeName == Calls("sanitizeName") /\ Returns(sanitizeName(args[1]))

Call_sanitize_name == Calls("sanitize_name") /\ Returns(sanitize_name(args[1]))

Call_parsePluginArchiveName ==
    Calls("parsePluginArchiveName") /\ Returns(parsePluginArchiveName(args[1]))

Call_parse_plugin_from_archive ==
    /\ Calls("parse_plugin_from_archive")
    /\ Returns(parse_plugin_from_archive(args[1]))

\* The checksum of a file is computed, the file is or is not changed, and
\* the file is verified against that checksum
Call_verifyChecksum ==
    /\ Calls("verifyChecksum")
    /\ Returns(verifyChecksum(args[2], generateChecksum(args[1])))

Call_verify_checksum ==
    /\ Calls("verify_checksum")
    /\ Returns(verify_checksum(args[2], generate_checksum(args[1])))

Call_renderTemplate ==
    Calls("renderTemplate") /\ Returns(renderTemplate(args[1], args[2]))

Call_template_replace ==
    /\ Calls("template_replace")
    /\ Returns([rendered |-> page_content(args[1], args[2], 1),
                warned |-> FALSE])

UtilNext ==
    \/ Call_sanitizeName
    \/ Call_sanitize_name
    \/ Call_parsePluginArchiveName
    \/ Call_parse_plugin_from_archive
    \/ Call_verifyChecksum
    \/ Call_verify_checksum
    \/ Call_renderTemplate
    \/ Call_template_replace

(***************************************************************************)
(* Version ordering: semver.rcompare of the semver package, and the        *)
(* GNU `sort -V -r` of sort_versions                                       *)
(***************************************************************************)
\* The characters of the version strings in the order of their codes
CodeOrder == <<"+", "-", ".">> \o DigitChars \o UpperChars \o <<"_">>
             \o LowerChars

Code(c) == CHOOSE i \in DOMAIN CodeOrder : CodeOrder[i] = c

Sign(n) == IF n < 0 THEN -1 ELSE IF n > 0 THEN 1 ELSE 0

RECURSIVE ParseInt(_)
ParseInt(s) ==
    IF s = << >> THEN 0
    ELSE 10 * ParseInt(SubSeq(s, 1, Len(s) - 1)) + (Code(s[Len(s)]) - Code("0"))

\* String.prototype.split with a one-character separator
RECURSIVE Split(_, _)
Split(s, sep) ==
    LET i == First({ k \in DOMAIN s : s[k] = sep })
    IN  IF i = 0 THEN << s >>
        ELSE << SubSeq(s, 1, i - 1) >> \o Split(SubSeq(s, i + 1, Len(s)), sep)

\* a < b, a = b, a > b as -1, 0, 1 for strings compared code by code
RECURSIVE StringCompare(_, _)
StringCompare(a, b) ==
    IF a = << >> \/ b = << >>
    THEN Sign(Len(a) - Len(b))
    ELSE IF a[1] # b[1] THEN Sign(Code(a[1]) - Code(b[1]))
    ELSE StringCompare(Tail(a), Tail(b))

\* new SemVer(version): the numbers and the pre-release identifiers; the
\* build part is no part of the precedence
SemVer(version) ==
    LET plus == First({ k \in DOMAIN version : version[k] = "+" })
        main == IF plus = 0 THEN version ELSE SubSeq(version, 1, plus - 1)
        dash == First({ k \in DOMAIN main : main[k] = "-" })
        core == Split(IF dash = 0 THEN main ELSE SubSeq(main, 1, dash - 1), ".")
    IN  [major |-> ParseInt(core[1]), minor |-> ParseInt(core[2]),
         patch |-> ParseInt(core[3]),
         prerelease |-> IF dash = 0 THEN << >>
                        ELSE Split(SubSeq(main, dash + 1, Len(main)), ".")]

\* compareIdentifiers: numeric identifiers by value and below the others
compareIdentifiers(a, b) ==
    LET anum == a # << >> /\ \A i \in DOMAIN a : IsDigit(a[i])
        bnum == b # << >> /\ \A i \in DOMAIN b : IsDigit(b[i])
    IN  IF anum /\ bnum THEN Sign(ParseInt(a) - ParseInt(b))
        ELSE IF anum THEN -1
        ELSE IF bnum THEN 1
        ELSE StringCompare(a, b)

\* SemVer.comparePre: a release ranks above its pre-releases
RECURSIVE comparePre(_, _)
comparePre(a, b) ==
    IF a = << >> /\ b = << >> THEN 0
    ELSE IF a = << >> THEN 1
    ELSE IF b = << >> THEN -1
    ELSE IF compareIdentifiers(a[1], b[1]) # 0
         THEN compareIdentifiers(a[1], b[1])
    ELSE IF Len(a) = 1 /\ Len(b) = 1 THEN 0
    ELSE IF Len(a) = 1 THEN -1
    ELSE IF Len(b) = 1 THEN 1
    ELSE comparePre(Tail(a), Tail(b))

\* semver.compare(a, b) and semver.rcompare(a, b) = compare(b, a)
compare(a, b) ==
    LET x == SemVer(a)
        y == SemVer(b)
    IN  IF x.major # y.major THEN Sign(x.major - y.major)
        ELSE IF x.minor # y.minor THEN Sign(x.minor - y.minor)
        ELSE IF x.patch # y.patch THEN Sign(x.patch - y.patch)
        ELSE comparePre(x.prerelease, y.prerelease)

rcompare(a, b) == compare(b, a)

\* The version comparison of `sort -V` on strings without a file suffix:
\* runs of non-digits by character, the end of the string below every
\* character and letters below the other characters, then runs of digits
\* by value
RECURSIVE filevercmp(_, _)
filevercmp(a, b) ==
    LET order(s) == IF s = << >> \/ IsDigit(s[1]) THEN 0
                    ELSE IF IsUpper(s[1]) \/ IsLower(s[1]) THEN Code(s[1])
                    ELSE Code(s[1]) + 256
        digits(s) == First({ k \in 1..(Len(s) + 1) :
                                k > Len(s) \/ ~IsDigit(s[k]) }) - 1
    IN  IF a = << >> /\ b = << >> THEN 0
        ELSE IF (a # << >> /\ ~IsDigit(a[1])) \/ (b # << >> /\ ~IsDigit(b[1]))
        THEN IF order(a) # order(b) THEN Sign(order(a) - order(b))
             ELSE filevercmp(IF a = << >> THEN a ELSE Tail(a),
                             IF b = << >> THEN b ELSE Tail(b))
        ELSE LET m == digits(a)
                 n == digits(b)
                 x == ParseInt(SubSeq(a, 1, m))
                 y == ParseInt(SubSeq(b, 1, n))
             IN  IF x # y THEN Sign(x - y)
                 ELSE filevercmp(SubSeq(a, m + 1, Len(a)),
                                 SubSeq(b, n + 1, Len(b)))

\* Array.prototype.sort(compareFn) and sort(1): a stable sort of the list
RECURSIVE SortWith(_, _)
SortWith(compareFn(_, _), list) ==
    IF list = << >> THEN << >>
    ELSE LET x == list[Len(list)]
             sorted == SortWith(compareFn, SubSeq(list, 1, Len(list) - 1))
             k == Cardinality({ i \in DOMAIN sorted :
                                  compareFn(sorted[i], x) <= 0 })
         IN  SubSeq(sorted, 1, k) \o << x >>
             \o SubSeq(sorted, k + 1, Len(sorted))

\* sort_versions: printf '%s\n' "$@" | sort -V -r
sort_versions(versions) ==
    SortWith(LAMBDA a, b : filevercmp(b, a), versions)

(***************************************************************************)
(* Documentation generation: generateDocs (src/docs.ts) and                *)
(* generate-docs-from-releases.sh                                          *)
(***************************************************************************)
\* The plugin archives of the releases: the plugin an archive belongs to,
\* its file name, the version of its manifest, and whether the archive can
\* be downloaded, extracted and read ("ok") or not ("fails")
AssetSamples ==
    { [plugin |-> <<"a">>, name |-> <<"a", "-", "1", ".", "0", ".", "0">> \o TarGzExt,
        version |-> <<"1", ".", "0", ".", "0">>, fetch |-> "ok"],
      [plugin |-> <<"a">>, name |-> <<"a", "-", "1", ".", "2", ".", "0">> \o TarGzExt,
        version |-> <<"1", ".", "2", ".", "0">>, fetch |-> "ok"],
      [plugin |-> <<"a">>, name |-> <<"a", "-", "1", ".", "2", ".", "0">> \o TarGzExt,
        version |-> <<"1", ".", "2", ".", "0">>, fetch |-> "fails"],
      [plugin |-> <<"a">>, name |-> <<"a", "-", "1", ".", "1", "0", ".", "0">> \o TarGzExt,
        version |-> <<"1", ".", "1", "0", ".", "0">>, fetch |-> "ok"],
      [plugin |-> <<"a">>, name |-> <<"a", "-", "1", ".", "0", ".", "0", "-", "b", "e", "t", "a", ".", "1">> \o TarGzExt,
        version |-> <<"1", ".", "0", ".", "0", "-", "b", "e", "t", "a", ".", "1">>, fetch |-> "ok"],
      [plugin |-> <<"b">>, name |-> <<"b", "-", "1", ".", "0", ".", "0">> \o TarGzExt,
        version |-> <<"1", ".", "0", ".", "0">>, fetch |-> "ok"],
      [plugin |-> <<"b">>, name |-> <<"b", "-", "1", ".", "0", ".", "0">> \o TarGzExt,
        version |-> <<"1", ".", "0", ".", "0">>, fetch |-> "fails"],
      [plugin |-> <<"a">>, name |-> <<"i", "n", "v", "a", "l", "i", "d">> \o TarGzExt,
        version |-> << >>, fetch |-> "ok"] }

\* Lists of assets with distinct file names, at most MaxAssets long
AssetLists ==
    UNION { { l \in [1..n -> AssetSamples] :
                \A i, j \in 1..n : i # j => l[i].name # l[j].name }
            : n \in 0..MaxAssets }

\* The page template and the version index template are readable or not
TemplateStates == [page : BOOLEAN, index : BOOLEAN]

DocInit(impls, keeps, lists, tpls) ==
    /\ doc_impl \in impls
    /\ keepVersions \in keeps
    /\ releaseAssets \in lists
    /\ templates \in tpls
    /\ basicPages = {}
    /\ doc_pc = "idle"
    /\ doc_g = 0
    /\ doc_i = 0
    /\ docs = << >>
    /\ pluginDocs = << >>
    /\ pages = {}
    /\ indexPages = {}
    /\ versionsJson = << >>
    /\ docLog = << >>
    /\ docExit = "none"

\* github.getPluginAssets(releases): the assets by plugin, plugins in the
\* order of their first asset
getPluginAssets(allAssets) ==
    LET firsts == SelectSeq([i \in DOMAIN allAssets |-> i],
                     LAMBDA i : \A j \in 1..(i - 1) :
                                   allAssets[j].plugin # allAssets[i].plugin)
    IN  [g \in DOMAIN firsts |->
            [pluginName |-> allAssets[firsts[g]].plugin,
             assets |-> SelectSeq(allAssets,
                 LAMBDA a : a.plugin = allAssets[firsts[g]].plugin)]]

pluginAssets == getPluginAssets(releaseAssets)

\* generateDocs up to the loop: no plugin archive is an exception
generateDocs ==
    /\ doc_impl = "ts"
    /\ target = "docs"
    /\ doc_pc = "idle"
    /\ docExit = "none"
    /\ IF Len(pluginAssets) = 0
       THEN doc_pc' = "done" /\ docExit' = "throw" /\ doc_g' = doc_g
       ELSE doc_pc' = "assets" /\ docExit' = docExit /\ doc_g' = 1
    /\ UNCHANGED <<doc_impl, keepVersions, releaseAssets, templates,
                   basicPages, doc_i, docs,
                   pluginDocs, pages, indexPages, versionsJson, docLog,
                   docRest>>

\* One round of `for (const asset of assets)` of processPluginVersions: an
\* asset whose name does not parse is skipped, a failing download,
\* extraction or manifest read is caught and logged
processAsset ==
    /\ doc_impl = "ts"
    /\ doc_pc = "assets"
    /\ doc_i < Len(pluginAssets[doc_g].assets)
    /\ doc_i' = doc_i + 1
    /\ LET asset == pluginAssets[doc_g].assets[doc_i + 1]
           parsedName == parsePluginArchiveName(asset.name)
       IN  IF ~parsedName.match
           THEN /\ docLog' = Append(docLog, [asset |-> asset,
                                             parsed |-> parsedName,
                                             outcome |-> "skipped"])
                /\ UNCHANGED docs
           ELSE IF asset.fetch # "ok"
           THEN /\ docLog' = Append(docLog, [asset |-> asset,
                                             parsed |-> parsedName,
                                             outcome |-> "failed"])
                /\ UNCHANGED docs
           ELSE /\ docLog' = Append(docLog, [asset |-> asset,
                                             parsed |-> parsedName,
                                             outcome |-> "processed"])
                /\ docs' = Append(docs, asset.version)
    /\ UNCHANGED <<doc_impl, keepVersions, releaseAssets, templates,
                   basicPages, doc_pc, doc_g,
                   pluginDocs, pages, indexPages, versionsJson, docExit,
                   docRest>>

\* The end of processPluginVersions, docs.sort(semver.rcompare), and
\* pluginDocs.set(pluginName, docs)
processPluginVersions ==
    /\ doc_impl = "ts"
    /\ doc_pc = "assets"
    /\ doc_i = Len(pluginAssets[doc_g].assets)
    /\ pluginDocs' = Append(pluginDocs,
                        [pluginName |-> pluginAssets[doc_g].pluginName,
                         versions |-> SortWith(rcompare, docs)])
    /\ docs' = << >>
    /\ doc_i' = 0
    /\ IF doc_g < Len(pluginAssets)
       THEN doc_g' = doc_g + 1 /\ doc_pc' = doc_pc
       ELSE doc_g' = doc_g /\ doc_pc' = "cleanup"
    /\ UNCHANGED <<doc_impl, keepVersions, releaseAssets, templates,
                   basicPages, pages, indexPages,
                   versionsJson, docLog, docExit, docRest>>

\* if (keepVersions > 0) cleanupOldVersions(pluginDocs, keepVersions)
cleanupOldVersions ==
    /\ doc_impl = "ts"
    /\ doc_pc = "cleanup"
    /\ doc_pc' = "files"
    /\ pluginDocs' =
          IF keepVersions > 0
          THEN [g \in DOMAIN pluginDocs |->
                   [pluginDocs[g] EXCEPT !.versions =
                       IF Len(@) > keepVersions
                       THEN SubSeq(@, 1, keepVersions) ELSE @]]
          ELSE pluginDocs
    /\ UNCHANGED <<doc_impl, keepVersions, releaseAssets, templates,
                   basicPages, doc_g, doc_i, docs,
                   pages, indexPages, versionsJson, docLog, docExit, docRest>>

\* generateBasicHtml(doc, versionSelector): what the basic page carries
generateBasicHtml(doc) ==
    [plugin |-> doc.plugin, version |-> doc.version,
     carries |-> {"versionSelector", "pluginName", "version", "description",
                  "author", "license", "readmeHtml", "archiveUrl",
                  "archiveSize"}]

\* generateDocumentationFiles: for each plugin the index page, which is a
\* redirect to versions[0], and a page for each version; then
\* generateRootIndex, which reads docs[0].version of every plugin and throws
\* for a plugin without a version; the work directory is removed then.
\* generateVersionPage writes the basic page when the template cannot be read
generateDocumentationFiles ==
    /\ doc_impl = "ts"
    /\ doc_pc = "files"
    /\ IF \E g \in DOMAIN pluginDocs : pluginDocs[g].versions = << >>
       THEN /\ doc_pc' = "done"
            /\ docExit' = "throw"
            /\ UNCHANGED <<pages, indexPages, basicPages>>
       ELSE /\ doc_pc' = "metadata"
            /\ docExit' = docExit
            /\ pages' = { [plugin |-> pluginDocs[g].pluginName,
                           version |-> pluginDocs[g].versions[k]] :
                          <<g, k>> \in { x \in (DOMAIN pluginDocs) \X (1..MaxAssets) :
                                           x[2] <= Len(pluginDocs[x[1]].versions) } }
            /\ indexPages' = { [plugin |-> pluginDocs[g].pluginName,
                                versions |-> << pluginDocs[g].versions[1] >>,
                                latest |-> { pluginDocs[g].versions[1] }] :
                               g \in DOMAIN pluginDocs }
            /\ basicPages' = IF templates.page THEN {}
                             ELSE { generateBasicHtml(pg) : pg \in pages' }
    /\ UNCHANGED <<doc_impl, keepVersions, releaseAssets, templates,
                   doc_g, doc_i, docs, pluginDocs, versionsJson, docLog,
                   docRest>>

\* generateVersionsMetadata, versions.json, pushToGitHubPages and the return
generateVersionsMetadata ==
    /\ doc_impl = "ts"
    /\ doc_pc = "metadata"
    /\ doc_pc' = "done"
    /\ docExit' = "return"
    /\ versionsJson' = [g \in DOMAIN pluginDocs |->
                           [plugin |-> pluginDocs[g].pluginName,
                            versions |-> pluginDocs[g].versions,
                            latest |-> << >>]]
    /\ UNCHANGED <<doc_impl, keepVersions, releaseAssets, templates,
                   basicPages, doc_g, doc_i, docs,
                   pluginDocs, pages, indexPages, docLog, docRest>>

TsDocNext ==
    \/ generateDocs
    \/ processAsset
    \/ processPluginVersions
    \/ cleanupOldVersions
    \/ generateDocumentationFiles
    \/ generateVersionsMetadata

\* generate-docs-from-releases.sh up to the loop over the assets
shGenerateDocs ==
    /\ doc_impl = "sh"
    /\ target = "docs"
    /\ doc_pc = "idle"
    /\ docExit = "none"
    /\ IF Len(releaseAssets) = 0
       THEN doc_pc' = "done" /\ docExit' = "die"
       ELSE doc_pc' = "assets" /\ docExit' = docExit
    /\ UNCHANGED <<doc_impl, keepVersions, releaseAssets, templates,
                   basicPages, doc_g, doc_i, docs,
                   pluginDocs, pages, indexPages, versionsJson, docLog,
                   docRest>>

\* The plugin data file plugin_<pkgName>.json gets one more version
AddVersion(files, plugin_name, version) ==
    IF \E g \in DOMAIN files : files[g].pluginName = plugin_name
    THEN [g \in DOMAIN files |->
             IF files[g].pluginName = plugin_name
             THEN [files[g] EXCEPT !.versions = Append(@, version)]
             ELSE files[g]]
    ELSE Append(files, [pluginName |-> plugin_name, versions |-> <<version>>])

\* One round of the loop over the assets.  The script runs under
\* `set -euo pipefail`: plugin_info=$(parse_plugin_from_archive ...) with a
\* name that does not parse, a failing download_release_asset and a failing
\* extract_archive_files each end the script
shProcessAsset ==
    /\ doc_impl = "sh"
    /\ doc_pc = "assets"
    /\ doc_i < Len(releaseAssets)
    /\ doc_i' = doc_i + 1
    /\ LET asset == releaseAssets[doc_i + 1]
           plugin_info == parse_plugin_from_archive(asset.name)
       IN  IF ~plugin_info.match
           THEN /\ docLog' = Append(docLog, [asset |-> asset,
                                             parsed |-> plugin_info,
                                             outcome |-> "errexit"])
                /\ doc_pc' = "done"
                /\ docExit' = "errexit"
                /\ UNCHANGED pluginDocs
           ELSE IF asset.fetch # "ok"
           THEN /\ docLog' = Append(docLog, [asset |-> asset,
                                             parsed |-> plugin_info,
                                             outcome |-> "failed"])
                /\ doc_pc' = "done"
                /\ docExit' = "errexit"
                /\ UNCHANGED pluginDocs
           ELSE /\ docLog' = Append(docLog, [asset |-> asset,
                                             parsed |-> plugin_info,
                                             outcome |-> "processed"])
                /\ pluginDocs' = AddVersion(pluginDocs, asset.plugin,
                                            asset.version)
                /\ UNCHANGED <<doc_pc, docExit>>
    /\ UNCHANGED <<doc_impl, keepVersions, releaseAssets, templates,
                   basicPages, doc_g, docs, pages,
                   indexPages, versionsJson, docRest>>

\* "${WORK_DIR}"/plugin_*.json: the data files in the order of their names
plugin_data_files ==
    SortWith(LAMBDA x, y : StringCompare(x.pluginName, y.pluginName),
             pluginDocs)

\* Step 4: the branch is prepared once every asset is processed
shInitBranch ==
    /\ doc_impl = "sh"
    /\ doc_pc = "assets"
    /\ doc_i = Len(releaseAssets)
    /\ doc_pc' = "plugins"
    /\ doc_g' = 1
    /\ UNCHANGED <<doc_impl, keepVersions, releaseAssets, templates,
                   basicPages, doc_i, docs,
                   pluginDocs, pages, indexPages, versionsJson, docLog,
                   docExit, docRest>>

\* One round of `for plugin_data_file`: the versions are sorted, a page is
\* generated for each (generate_plugin_page returns 1 when the page template
\* is not a file, which ends the script), versions.json is updated, the
\* version index page is generated from all the sorted versions if its
\* template is a file, and cleanup_old_versions then
\* removes the directories beyond the newest keepVersions and updates
\* versions.json again
shGeneratePlugin ==
    /\ doc_impl = "sh"
    /\ doc_pc = "plugins"
    /\ doc_g <= Len(plugin_data_files)
    /\ doc_g' = doc_g + 1
    /\ LET plugin_name == plugin_data_files[doc_g].pluginName
           sorted_versions == sort_versions(plugin_data_files[doc_g].versions)
           latest_version == sorted_versions[1]
           cleaned == keepVersions > 0 /\ Len(sorted_versions) > keepVersions
           kept == IF cleaned THEN SubSeq(sorted_versions, 1, keepVersions)
                   ELSE sorted_versions
       IN  /\ docs' = sorted_versions
           /\ IF ~templates.page
              THEN /\ doc_pc' = "done"
                   /\ docExit' = "errexit"
                   /\ UNCHANGED <<pages, indexPages, versionsJson>>
              ELSE /\ pages' = pages \cup { [plugin |-> plugin_name,
                                             version |-> kept[k]] :
                                            k \in DOMAIN kept }
                   /\ indexPages' =
                         IF ~templates.index THEN indexPages
                         ELSE indexPages \cup
                            { [plugin |-> plugin_name,
                               versions |-> sorted_versions,
                               latest |-> { sorted_versions[k] : k \in
                                   { j \in DOMAIN sorted_versions :
                                       sorted_versions[j] = latest_version } }] }
                   /\ versionsJson' = Append(versionsJson,
                                         [plugin |-> plugin_name,
                                          versions |-> kept,
                                          latest |-> kept[1]])
                   /\ UNCHANGED <<doc_pc, docExit>>
    /\ UNCHANGED <<doc_impl, keepVersions, releaseAssets, templates,
                   basicPages, doc_i, pluginDocs, docLog, docRest>>

\* The root index, the push and `exit 0`
shDocsExit ==
    /\ doc_impl = "sh"
    /\ doc_pc = "plugins"
    /\ doc_g > Len(plugin_data_files)
    /\ doc_pc' = "done"
    /\ docExit' = "exit 0"
    /\ UNCHANGED <<doc_impl, keepVersions, releaseAssets, templates,
                   basicPages, doc_g, doc_i, docs,
                   pluginDocs, pages, indexPages, versionsJson, docLog,
                   docRest>>

ShDocNext ==
    \/ shGenerateDocs
    \/ shProcessAsset
    \/ shInitBranch
    \/ shGeneratePlugin
    \/ shDocsExit

(***************************************************************************)
(* Specifications                                                          *)
(***************************************************************************)
DefaultInputs ==
    [validateOnly |-> FALSE, packageFormat |-> "tar.gz",
     ociRegistry |-> FALSE, ociCredentials |-> FALSE,
     generateDocs |-> FALSE, githubAccess |-> FALSE]

\* The state of the components a specification does not run
PublishIdle == StoreInit /\ OciIdle /\ RelIdle /\ ShIdle
ValIdle == ValInit({"ts"})
PkgIdle == PkgInit({"ts"}, {"tar.gz"})
RunIdle == RunInit({DefaultInputs})
UtilIdle == fn = "none" /\ args = << >> /\ ret = << >>
DocIdle == DocInit({"ts"}, {0}, {<< >>}, {[page |-> TRUE, index |-> TRUE]})
AuxIdle == UtilIdle /\ DocIdle

\* The publishers: pushToOCI, createPluginReleases, push-to-oci.sh
PublishInit ==
    /\ target \in {"oci", "release", "sh"}
    /\ IF target = "oci" THEN OciInit
       ELSE IF target = "sh" THEN ShInit /\ OciIdle
       ELSE StoreInit /\ OciIdle
    /\ IF target = "release" THEN RelInit ELSE RelIdle
    /\ IF target = "oci" THEN ShIdle ELSE IF target = "sh" THEN TRUE
       ELSE ShIdle
    /\ pluginsDirectory = << >>
    /\ ValIdle /\ PkgIdle /\ RunIdle /\ AuxIdle

PublishNext == OciNext \/ RelNext \/ ShNext

SpecPublish == PublishInit /\ [][PublishNext]_vars

\* Publishing with force mode on.  The caller's force mode is forceRelease:
\* createPluginReleases reads it from its options, while OCIPushOptions has
\* no field for it, so pushToOCI runs the same way whatever its value.
ForceInit ==
    /\ target \in {"oci", "release"}
    /\ IF target = "oci" THEN OciInit ELSE StoreInit /\ OciIdle
    /\ IF target = "release" THEN RelInit ELSE RelQuiet
    /\ forceRelease = TRUE
    /\ ShIdle
    /\ pluginsDirectory = << >>
    /\ ValIdle /\ PkgIdle /\ RunIdle /\ AuxIdle

ForceNext == OciNext \/ RelNext

SpecForce == ForceInit /\ [][ForceNext]_vars

\* Batch validation of a plugins directory by either validator
ValidateInit ==
    /\ target = "validate"
    /\ pluginsDirectory \in PluginListings
    /\ ValInit({"ts", "sh"})
    /\ PublishIdle /\ PkgIdle /\ RunIdle /\ AuxIdle

ValidateNext == TsValNext \/ ShValNext

SpecValidate == ValidateInit /\ [][ValidateNext]_vars

\* validate-manifest.sh on a directory with one plugin
ManifestInit ==
    /\ target = "manifest"
    /\ pluginsDirectory \in
          { << PluginDir("m", <<"m">>, "ok", m) >> : m \in ManifestSamples }
    /\ ValInit({"sh"})
    /\ PublishIdle /\ PkgIdle /\ RunIdle /\ AuxIdle

SpecManifest == ManifestInit /\ [][ShValNext]_vars

\* Packaging of a plugins directory by either packager
PackageInit ==
    /\ target = "package"
    /\ pluginsDirectory \in PluginListings
    /\ \/ PkgInit({"ts"}, {"zip", "tar.gz"})
       \/ PkgInit({"sh"}, {"zip", "tar.gz", "both"})
    /\ PublishIdle /\ ValIdle /\ RunIdle /\ AuxIdle

PackageNext == TsPkgNext \/ ShPkgNext

SpecPackage == PackageInit /\ [][PackageNext]_vars

\* A run of the action
ActionInit ==
    /\ target = "run"
    /\ pluginsDirectory \in PluginListings
    /\ ValIdle /\ PkgIdle /\ AuxIdle
    /\ RunInit(Inputs)
    /\ packageDirs =
          [i \in 1..Len(pluginDirs) |->
              [folder |-> pluginDirs[i].id,
               manifest |->
                  IF pluginDirs[i].file = "ok"
                  THEN Manifest(pluginDirs[i].manifest.pkgName,
                                pluginDirs[i].manifest.version)
                  ELSE NoManifest]]
    /\ registry \in InitialRegistries
    /\ loggedIn = FALSE
    /\ tempDir = FALSE
    /\ OciIdle /\ RelIdle /\ ShIdle

ActionNext == RunSteps \/ TsValNext \/ TsPkgNext \/ OciNext

SpecRun == ActionInit /\ [][ActionNext]_vars

\* One call of a utility function
UtilInit ==
    /\ target = "util"
    /\ \E c \in UtilCalls : fn = c.fn /\ args = c.args
    /\ ret = << >>
    /\ pluginsDirectory = << >>
    /\ PublishIdle /\ ValIdle /\ PkgIdle /\ RunIdle /\ DocIdle

SpecUtil == UtilInit /\ [][UtilNext]_vars

\* A run of either documentation generator
DocsInit ==
    /\ target = "docs"
    /\ DocInit({"ts", "sh"}, 0..MaxKeep, AssetLists, TemplateStates)
    /\ pluginsDirectory = << >>
    /\ PublishIdle /\ ValIdle /\ PkgIdle /\ RunIdle /\ UtilIdle

DocsNext == TsDocNext \/ ShDocNext

SpecDocs == DocsInit /\ [][DocsNext]_vars

(***************************************************************************)
(* Properties of the publishers                                            *)
(***************************************************************************)
\* The registry reference <sanitized pkgName>:<version> of a package
PkgRef(d) == <<sanitizeName(d.manifest.pkgName), d.manifest.version>>

DistinctRefs(dirs) ==
    /\ \A i \in DOMAIN dirs : dirs[i].manifest.readable
    /\ \A i, j \in DOMAIN dirs : i # j => PkgRef(dirs[i]) # PkgRef(dirs[j])

\* The registry holds none of the versions of the packages
NoneHeld(reg, dirs) ==
    \A i \in DOMAIN dirs :
        dirs[i].manifest.readable =>
            ~ManifestFetchOk(reg, PkgRef(dirs[i])[1], PkgRef(dirs[i])[2])

\* A run of pushToOCI that returned and in which no command failed
CleanRun(r) == r.ok /\ ~r.fetchFault

FirstThenSecond(a, b, n) ==
    /\ a.pushedCount = n /\ a.skippedCount = 0
    /\ b.pushedCount = 0 /\ b.skippedCount = n
    /\ b.pushes = 0 /\ b.tags = 0
    /\ b.regAfter = b.regBefore

\* C1 as stated: two runs of pushToOCI in a row on the same n packages, the
\* first from a registry holding none of their versions, no failing step:
\* the first returns (n, 0), the second (0, n) and leaves the registry alone.
C1_Original ==
    \A i \in 1..(Len(ociRuns) - 1) :
        ( /\ CleanRun(ociRuns[i]) /\ CleanRun(ociRuns[i + 1])
          /\ NoneHeld(ociRuns[i].regBefore, packageDirs) )
        => FirstThenSecond(ociRuns[i], ociRuns[i + 1], Len(packageDirs))

\* C1 amended: the same, for packages whose registry references
\* <sanitized pkgName>:<version> are pairwise distinct.
C1_Idempotent ==
    \A i \in 1..(Len(ociRuns) - 1) :
        ( /\ CleanRun(ociRuns[i]) /\ CleanRun(ociRuns[i + 1])
          /\ NoneHeld(ociRuns[i].regBefore, packageDirs)
          /\ DistinctRefs(packageDirs) )
        => FirstThenSecond(ociRuns[i], ociRuns[i + 1], Len(packageDirs))

C1_Witness ==
    /\ Len(ociRuns) = 2
    /\ Len(packageDirs) = 2
    /\ DistinctRefs(packageDirs)
    /\ CleanRun(ociRuns[1]) /\ CleanRun(ociRuns[2])
    /\ NoneHeld(ociRuns[1].regBefore, packageDirs)
    /\ ociRuns[1].pushedCount = 2
    /\ ociRuns[2].skippedCount = 2

\* C2: in a publish run (pushToOCI, createPluginReleases, push-to-oci.sh) an
\* unexpected error while publishing one artifact ends the run with a
\* failure at that artifact: no later artifact is processed.
C2_ErrorAbortsRun ==
    /\ \A k \in DOMAIN ociRuns :
          ociRuns[k].errorAt # 0 =>
              ~ociRuns[k].ok /\ ociRuns[k].reached = ociRuns[k].errorAt
    /\ \A k \in DOMAIN relRuns :
          relRuns[k].errorAt # 0 =>
              ~relRuns[k].ok /\ relRuns[k].reached = relRuns[k].errorAt
    /\ \A k \in DOMAIN shRuns :
          shRuns[k].errorAt # 0 =>
              shRuns[k].code # 0 /\ shRuns[k].reached = shRuns[k].errorAt
    /\ ociRun.errorAt # 0 => oci_i = ociRun.errorAt
    /\ relRun.errorAt # 0 => rel_i = relRun.errorAt
    /\ shRun.errorAt # 0 => sh_i = shRun.errorAt

\* A run that went through its whole list and reached its final statement
ReachedEnd(r) == r.at \in {"return", "no packages were processed"}

\* C4: a publish run that publishes nothing and skips nothing ends in an
\* error, a run that only skips ends in success; for pushToOCI and for
\* createPluginReleases.
C4_ZeroIsError ==
    /\ \A k \in DOMAIN ociRuns :
          LET r == ociRuns[k] IN
          /\ (r.pushedCount = 0 /\ r.skippedCount = 0) => ~r.ok
          /\ (ReachedEnd(r) /\ r.pushedCount = 0 /\ r.skippedCount > 0)
                => r.ok
    /\ \A k \in DOMAIN relRuns :
          LET r == relRuns[k] IN
          /\ (r.createdReleases = <<>> /\ r.skippedReleases = <<>>) => ~r.ok
          /\ (ReachedEnd(r) /\ r.createdReleases = <<>>
                            /\ r.skippedReleases # <<>>) => r.ok

(***************************************************************************)
(* Properties of packaging, of the action run and of validation            *)
(***************************************************************************)
\* The directories a packager or validator discovers
Discovered(impl) == IF impl = "ts" THEN pluginDirs ELSE pluginsDirectory

\* C3: packaging continues past a plugin directory whose manifest read or
\* archiving fails: the packager ends, with or without a failure, only
\* after every discovered directory has been processed, in listing order.
C3_ContinuesPastFailure ==
    pkExit # "none" =>
        /\ Len(pkLog) = Len(Discovered(pk_impl))
        /\ \A k \in DOMAIN pkLog : pkLog[k].dir = Discovered(pk_impl)[k]

\* C5: when validation reports at least one invalid plugin the run ends
\* failed right after validation, and then, as in validate-only mode, no
\* packaging, no OCI push and no documentation generation is executed.
C5_InvalidStopsRun ==
    LET validationOnly ==
            /\ pk_pc = "idle" /\ pkLog = << >> /\ outputFiles = {}
            /\ oci_pc = "idle" /\ ociRuns = << >> /\ ~loggedIn
            /\ \A k \in DOMAIN executed : executed[k] = "validate"
    IN  /\ (val_pc = "done" /\ Len(invalidPlugins) > 0) =>
              /\ validationOnly
              /\ run_pc \in {"validate", "done"}
              /\ run_pc = "done" => failed
        /\ inputs.validateOnly =>
              /\ validationOnly
              /\ run_pc \in {"idle", "validate", "done"}

\* A run that would package, push and generate the documentation ends
\* failed because one of its two plugins is invalid
C5_Witness ==
    /\ run_pc = "done"
    /\ failed
    /\ Len(invalidPlugins) > 0
    /\ Len(validPlugins) > 0
    /\ inputs = [validateOnly |-> FALSE, packageFormat |-> "both",
                 ociRegistry |-> TRUE, ociCredentials |-> TRUE,
                 generateDocs |-> TRUE, githubAccess |-> TRUE]

\* C6: batch validation checks the discovered directories in order and ends
\* only after the last one: no outcome exists while directories remain, and
\* the outcome is the failing one exactly when some directory was found
\* invalid.
C6_AllDirsChecked ==
    LET discovered == Discovered(val_impl)
        someInvalid == \E k \in DOMAIN valLog : ~valLog[k].valid
    IN  /\ Len(valLog) <= Len(discovered)
        /\ \A k \in DOMAIN valLog : valLog[k].dir = discovered[k]
        /\ valExit # "none" => Len(valLog) = Len(discovered)
        /\ valExit = "exit 1" <=> (val_pc = "done" /\ val_impl = "sh"
                                     /\ someInvalid)
        /\ valExit = "return" => (Len(invalidPlugins) > 0 <=> someInvalid)

\* The first directory is invalid and the one after it was still validated
C6_Witness ==
    /\ valExit \in {"exit 1", "return"}
    /\ Len(valLog) >= 2
    /\ ~valLog[1].valid
    /\ valLog[2].valid

\* The message is among the errors
Has(errors, e) == \E i \in DOMAIN errors : errors[i] = e

C9_ExecutableRequired ==
    \A k \in DOMAIN valLog :
        LET m == valLog[k].dir.manifest
            reported == Has(valLog[k].errors, [msg |->
                   "Command type 'executable' requires 'executable' field"])
        IN  (valLog[k].dir.file = "ok" /\ Len(m.cmds) > 0
               /\ m.cmds[1].type = "executable") =>
            IF m.cmds[1].executable = ""
            THEN reported /\ ~valLog[k].valid
            ELSE ~reported

\* C10: validation accepts as the type of the first command exactly the
\* values executable, alias and group, and reports an error for every other
\* value.
C10_AcceptedTypes ==
    \A k \in DOMAIN valLog :
        LET m == valLog[k].dir.manifest
            errors == valLog[k].errors
            reported ==
                \E i \in DOMAIN errors :
                    errors[i].msg \in {"Invalid command type: ",
                                       "First command missing 'type' field"}
        IN  (valLog[k].dir.file = "ok" /\ Len(m.cmds) > 0) =>
            (reported <=> m.cmds[1].type \notin {"executable", "alias",
                                                 "group"})

\* The manifest has a pkgName, a version of the semver form and a first
\* command with a well-formed name, a declared type and, for an executable,
\* a path
CorrectFields(m) ==
    /\ m.pkgName # << >>
    /\ m.version # << >> /\ SemverForm(m.version)
    /\ Len(m.cmds) > 0
    /\ m.cmds[1].name # << >> /\ validate_command_name(m.cmds[1].name)
    /\ m.cmds[1].type \in {"executable", "group"}
    /\ m.cmds[1].type = "executable" => m.cmds[1].executable # ""

\* C11: warnings never make a validation result invalid: a plugin is valid
\* exactly when its error list is empty, and a manifest with correct pkgName,
\* version and cmds but no _metadata is valid with zero errors and a warning
\* that names the missing author.
C11_WarningsNeverInvalidate ==
    \A k \in DOMAIN valLog :
        LET m == valLog[k].dir.manifest
        IN  /\ valLog[k].valid <=> valLog[k].errors = << >>
            /\ (valLog[k].dir.file = "ok" /\ CorrectFields(m)
                  /\ m.author = "" /\ m.license = "") =>
                /\ valLog[k].valid
                /\ valLog[k].errors = << >>
                /\ \E i \in DOMAIN valLog[k].warnings :
                       valLog[k].warnings[i] = "author"
(***************************************************************************)
(* Properties of the utility functions                                     *)
(***************************************************************************)
\* C12: sanitizeName(input) is the input lower-cased, with every whitespace
\* character replaced by a hyphen and then every character outside
\* [a-z0-9-] removed; the empty string gives the empty string.
C12_SanitizeStrips ==
    (fn \in {"sanitizeName", "sanitize_name"} /\ ret # << >>) =>
        /\ ret[1] = FilterStr(IsNameChar,
                        MapStr(SpaceToHyphen, MapStr(ToLower, args[1])))
        /\ args[1] = << >> => ret[1] = << >>

\* C13: sanitizeName gives, after lower-casing, a hyphen for every character
\* that is invalid in a name, and returns a name made only of lowercase
\* letters, digits and hyphens unchanged.
C13_SanitizeReplaces ==
    (fn \in {"sanitizeName", "sanitize_name"} /\ ret # << >>) =>
        /\ ret[1] = [i \in DOMAIN args[1] |->
                        IF IsNameChar(ToLower(args[1][i]))
                        THEN ToLower(args[1][i]) ELSE "-"]
        /\ (\A i \in DOMAIN args[1] : IsNameChar(args[1][i])) =>
               ret[1] = args[1]

\* C14: for every sanitized name n, every version v of the semver form and
\* each of the extensions .zip and .tar.gz, parsing the archive file name
\* "n-v.<ext>" returns the name n and the version v.
C14_ArchiveNameRoundTrip ==
    \A n \in ArchiveNameSamples, v \in ArchiveVersionSamples,
       e \in {TarGzExt, ZipExt} :
        (/\ fn \in {"parsePluginArchiveName", "parse_plugin_from_archive"}
         /\ ret # << >>
         /\ args[1] = n \o <<"-">> \o v \o e) =>
            ret[1] = [match |-> TRUE, name |-> n, version |-> v]

(***************************************************************************)
(* Properties of documentation generation                                  *)
(***************************************************************************)
\* The file name has a "-<digits>.<digits>.<digits>" part after a name
HasVersionPart(filename) ==
    \E k \in 2..Len(filename) :
        /\ filename[k] = "-"
        /\ StartsWithVersion(SubSeq(filename, k + 1, Len(filename)))

\* C15: for every asset whose file name has no "-<digits>.<digits>.<digits>"
\* part the parser returns null, documentation assembly skips the asset
\* without an error, and it goes on with the assets that remain.
C15_UnparsableAssetSkipped ==
    \A k \in DOMAIN docLog :
        ~HasVersionPart(docLog[k].asset.name) =>
            /\ ~docLog[k].parsed.match
            /\ docLog[k].outcome = "skipped"
            /\ docExit # "errexit"
            /\ (doc_pc = "done" => Len(docLog) = Len(releaseAssets))

\* The versions of a plugin whose archive is parsed, downloaded and read
Published(p) ==
    { releaseAssets[k].version :
        k \in { j \in DOMAIN releaseAssets :
                  /\ releaseAssets[j].plugin = p
                  /\ HasVersionPart(releaseAssets[j].name)
                  /\ releaseAssets[j].fetch = "ok" } }

\* The k versions of highest semantic-version precedence among them
Newest(p, k) ==
    { v \in Published(p) :
        Cardinality({ u \in Published(p) : compare(u, v) > 0 }) < k }

Completed == docExit \in {"return", "exit 0"}

\* C17: with N published versions of a plugin and a retention count K,
\* 0 < K < N, the version index page of the plugin lists exactly the K newest
\* versions, only the newest of them is marked latest, and a version page
\* exists for exactly those K versions.
C17_RetentionKeepsNewest ==
    Completed =>
        \A p \in { releaseAssets[k].plugin : k \in DOMAIN releaseAssets } :
            (keepVersions > 0 /\ keepVersions < Cardinality(Published(p))) =>
                /\ \E page \in indexPages :
                      /\ page.plugin = p
                      /\ Len(page.versions) = keepVersions
                      /\ Range(page.versions) = Newest(p, keepVersions)
                      /\ page.latest = Newest(p, 1)
                /\ { pg.version : pg \in { q \in pages : q.plugin = p } }
                      = Newest(p, keepVersions)

\* The list is in descending semantic-version precedence
Descending(list) ==
    \A i, j \in DOMAIN list : i < j => compare(list[i], list[j]) >= 0

\* C18: every version list that documentation assembly produces for a plugin
\* (the sorted versions of the plugin, used for the version selector and
\* the index page, and the plugin's entry of versions.json) is in descending
\* semantic-version precedence, a release above its pre-releases, and its
\* first element is the version presented as latest.
C18_NewestFirst ==
    /\ \A k \in DOMAIN versionsJson :
          /\ Descending(versionsJson[k].versions)
          /\ versionsJson[k].latest # << >> =>
                 versionsJson[k].latest = versionsJson[k].versions[1]
    /\ (doc_impl = "ts" /\ doc_pc \in {"cleanup", "files", "metadata", "done"})
          => \A g \in DOMAIN pluginDocs : Descending(pluginDocs[g].versions)
    /\ doc_impl = "sh" => Descending(docs)
    /\ \A page \in indexPages :
          /\ Descending(page.versions)
          /\ page.latest = { page.versions[1] }

\* The plugins of which a version is published
PublishedPlugins ==
    { p \in { releaseAssets[k].plugin : k \in DOMAIN releaseAssets } :
        Published(p) # {} }

\* C19: the versions whose archive fails to download, extract or parse are
\* left out of the version set of their plugin and of versions.json, and
\* generation completes for all other versions and all other plugins,
\* whatever number of versions of a plugin fail.
C19_FailuresAreLeftOut ==
    (doc_pc = "done" /\ PublishedPlugins # {}) =>
        /\ Completed
        /\ \A p \in PublishedPlugins :
              \E k \in DOMAIN versionsJson :
                  /\ versionsJson[k].plugin = p
                  /\ Range(versionsJson[k].versions) \subseteq Published(p)
                  /\ Len(versionsJson[k].versions) =
                        IF keepVersions > 0
                           /\ keepVersions < Cardinality(Published(p))
                        THEN keepVersions
                        ELSE Cardinality(Published(p))
                  /\ \A v \in Range(versionsJson[k].versions) :
                        [plugin |-> p, version |-> v] \in pages

\* Every archive of the releases is parsed, downloaded and read
AllAssetsFine ==
    /\ releaseAssets # << >>
    /\ \A k \in DOMAIN releaseAssets :
          /\ HasVersionPart(releaseAssets[k].name)
          /\ releaseAssets[k].fetch = "ok"

\* C21: when a template file (of the version page or of the version index)
\* cannot be read, generation does not fail: for every version of every
\* plugin a fallback page with the plugin name, the version, the metadata,
\* the rendered README and the download link is written, and every plugin
\* has its index page.
C21_TemplateFallback ==
    (doc_pc = "done" /\ AllAssetsFine) =>
        /\ Completed
        /\ \A p \in PublishedPlugins : \E pg \in pages : pg.plugin = p
        /\ ~templates.page =>
              \A pg \in pages :
                  \E b \in basicPages :
                      /\ b.plugin = pg.plugin
                      /\ b.version = pg.version
                      /\ {"pluginName", "version", "description", "author",
                          "license", "readmeHtml", "archiveUrl"}
                            \subseteq b.carries
        /\ ~templates.index =>
              \A p \in PublishedPlugins :
                  \E page \in indexPages : page.plugin = p

(***************************************************************************)
(* Properties of the checksum functions                                    *)
(***************************************************************************)
\* C16: a file verifies against the checksum computed from it, and after a
\* change of one byte of its content it does not verify against the checksum
\* computed before the change.
C16_ChecksumDetectsChange ==
    /\ (fn = "verifyChecksum" /\ ret # << >>) =>
           ret[1] = (args[1] = args[2])
    /\ (fn = "verify_checksum" /\ ret # << >>) =>
           ret[1] = IF args[1] = args[2] THEN 0 ELSE 1

\* A file with one byte changed is verified and rejected
C16_Witness ==
    /\ fn = "verifyChecksum"
    /\ ret = << FALSE >>
    /\ Len(args[1]) = MaxFile
    /\ args[1] # args[2]

(***************************************************************************)
(* Properties of template rendering                                        *)
(***************************************************************************)
\* The value of the first entry of variables whose placeholder is at
\* position i of the template, as a one-element tuple; << >> when none is
EntryAt(template, variables, i) ==
    LET ks == { k \in DOMAIN variables :
                  HasAt(template, i, Placeholder(variables[k].key)) }
    IN  IF ks = {} THEN << >>
        ELSE << variables[CHOOSE k \in ks : \A m \in ks : k <= m] >>

\* The template in which every {{KEY}} with a key of variables is replaced
\* by the value of the key, the values being copied and not searched
RECURSIVE Substitute(_, _, _)
Substitute(template, variables, i) ==
    IF i > Len(template) THEN << >>
    ELSE LET e == EntryAt(template, variables, i)
         IN  IF e = << >>
             THEN << template[i] >> \o Substitute(template, variables, i + 1)
             ELSE (IF e[1].absent THEN << >> ELSE e[1].value)
                  \o Substitute(template, variables,
                                i + Len(Placeholder(e[1].key)))

\* C20: render(template, variables) returns the template in which every
\* occurrence of {{KEY}} is replaced by variables[KEY] for each key of
\* variables (the empty string for an undefined or null value) and all other
\* text is unchanged, the inserted values being copied verbatim and not
\* searched for placeholders; when {{UPPER_SNAKE}} placeholders remain it
\* still returns a result, and renderTemplate emits a diagnostic.
C20_RenderReplacesPlaceholders ==
    (fn \in {"renderTemplate", "template_replace"} /\ ret # << >>) =>
        /\ ret[1].rendered = Substitute(args[1], args[2], 1)
        /\ (fn = "renderTemplate" /\ HasUnreplaced(Substitute(args[1], args[2], 1)))
              => ret[1].warned

(***************************************************************************)
(* Properties of the publish runs: clean-up, session, force mode, counts   *)
(***************************************************************************)

\* C22: the temporary directory an operation creates no longer exists when
\* the operation ends, whether it returns normally or fails at any step:
\* here for the per-artifact push directory of pushToOCI and of
\* push-to-oci.sh, at the end of every run.
C22_TempDirsRemoved ==
    /\ \A k \in DOMAIN ociRuns : ~ociRuns[k].tempDir
    /\ \A k \in DOMAIN shRuns : ~shRuns[k].tempDir


\* C23: every publish run that logged in to the registry has logged out by
\* the time it ends, on the success path and on every error path: at the
\* end of every run of pushToOCI and of push-to-oci.sh no session is open.
C23_LoggedOutAtEnd ==
    /\ \A k \in DOMAIN ociRuns : ~ociRuns[k].loggedIn
    /\ \A k \in DOMAIN shRuns : ~shRuns[k].loggedIn


\* The position of the first step op of package i in the protocol steps of
\* the run rel, 0 if there is none
OpAt(rel, op, i) ==
    LET at == { n \in DOMAIN rel.ops :
                   rel.ops[n].op = op /\ rel.ops[n].i = i } IN
    IF at = {} THEN 0 ELSE CHOOSE n \in at : \A m \in at : n <= m

\* C24: with force mode on, an artifact whose version is already published
\* is not skipped: in a run that returns normally nothing is counted or
\* listed as skipped, and every GitHub tag that existed was deleted before
\* its release was created again and is reported as created.
C24_ForceRepublishes ==
    forceRelease =>
        /\ \A k \in DOMAIN ociRuns :
              ociRuns[k].ok => ociRuns[k].skippedCount = 0
        /\ \A k \in DOMAIN relRuns :
              relRuns[k].ok =>
                  /\ relRuns[k].skippedReleases = << >>
                  /\ \A i \in 1..Len(packages) :
                        OpAt(relRuns[k], "delete", i) > 0 =>
                            /\ OpAt(relRuns[k], "delete", i)
                                  < OpAt(relRuns[k], "create", i)
                            /\ TagName(packages[i])
                                  \in Range(relRuns[k].createdReleases)


\* C27: with force off, after any sequence of release runs, aborted runs
\* included, an artifact is reported as skipped only if a release for its
\* tag exists and the archive is uploaded as its asset.
C27_SkippedMeansReleased ==
    \A k \in DOMAIN relRuns :
        ~relRuns[k].force =>
            \A t \in Range(relRuns[k].skippedReleases) :
                /\ t \in relRuns[k].releases
                /\ t \in relRuns[k].assets

\* C28: after any sequence of successful OCI publish runs, the tag latest
\* of a registry reference designates the content of the highest semantic
\* version that has been pushed to that reference.
C28_LatestIsHighest ==
    ( /\ oci_pc = "idle" /\ sh_pc = "idle"
      /\ \A k \in DOMAIN ociRuns : ociRuns[k].ok
      /\ \A k \in DOMAIN shRuns : shRuns[k].code = 0 ) =>
        \A t \in registry :
            t.tag = LatestTag =>
                \E h \in registry :
                    /\ h.repo = t.repo
                    /\ h.tag # LatestTag
                    /\ h.content = t.content
                    /\ \A o \in registry :
                          (o.repo = t.repo /\ o.tag # LatestTag) =>
                              compare(o.tag, h.tag) <= 0

\* The tags of the input packages
PackageTags == { TagName(packages[i]) : i \in DOMAIN packages }

\* The number of positions of list that hold tag
Occurrences(list, tag) == Cardinality({ i \in DOMAIN list : list[i] = tag })

\* The statement of C29 as the specification words it: pushedCount +
\* skippedCount is the number of package directories; createdReleases and
\* skippedReleases are disjoint and together hold exactly one tag per input
\* package; deletedReleases is a subset of createdReleases.
C29_Original ==
    /\ \A k \in DOMAIN ociRuns :
          ociRuns[k].ok =>
              ociRuns[k].pushedCount + ociRuns[k].skippedCount
                  = Len(packageDirs)
    /\ \A k \in DOMAIN relRuns :
          relRuns[k].ok =>
              /\ Range(relRuns[k].createdReleases)
                    \cap Range(relRuns[k].skippedReleases) = {}
              /\ Range(relRuns[k].createdReleases)
                    \cup Range(relRuns[k].skippedReleases) = PackageTags
              /\ Len(relRuns[k].createdReleases)
                    + Len(relRuns[k].skippedReleases) = Len(packages)
              /\ Range(relRuns[k].deletedReleases)
                    \subseteq Range(relRuns[k].createdReleases)

\* C29: when a publish run returns normally every input is accounted for
\* exactly once: pushedCount + skippedCount is the number of package
\* directories; every tag occurs in createdReleases and skippedReleases
\* together as often as among the input packages, the two lists are
\* disjoint when the input packages have distinct tags, and
\* deletedReleases is a subset of createdReleases.
C29_AccountedOnce ==
    /\ \A k \in DOMAIN ociRuns :
          ociRuns[k].ok =>
              ociRuns[k].pushedCount + ociRuns[k].skippedCount
                  = Len(packageDirs)
    /\ \A k \in DOMAIN relRuns :
          relRuns[k].ok =>
              /\ \A t \in PackageTags \cup Range(relRuns[k].createdReleases)
                            \cup Range(relRuns[k].skippedReleases) :
                    Occurrences(relRuns[k].createdReleases, t)
                        + Occurrences(relRuns[k].skippedReleases, t)
                      = Cardinality({ i \in DOMAIN packages :
                                         TagName(packages[i]) = t })
              /\ Cardinality(PackageTags) = Len(packages) =>
                    Range(relRuns[k].createdReleases)
                        \cap Range(relRuns[k].skippedReleases) = {}
              /\ Range(relRuns[k].deletedReleases)
                    \subseteq Range(relRuns[k].createdReleases)

\* A run that returned normally with two input packages, one created and
\* one skipped
C29_Witness ==
    /\ Len(packages) = 2
    /\ \E k \in DOMAIN relRuns :
          /\ relRuns[k].ok
          /\ Len(relRuns[k].createdReleases) = 1
          /\ Len(relRuns[k].skippedReleases) = 1

(***************************************************************************)
(* Properties of the files written by packaging                            *)
(***************************************************************************)

\* The plugin directory an archive was made from
SourceDir(f) == CHOOSE d \in SampleDirs : d.id = f.content

\* C25: every archive file written by packaging is named
\* <name>-<version>.<ext> with ext zip or tar.gz, and its name part has only
\* characters of [a-z0-9-], whatever the manifest name is.
C25_ArchiveNamesSanitized ==
    \A f \in outputFiles :
        f.kind = "archive" =>
            \E ext \in {ZipExt, TarGzExt} :
                LET tail == Hyphen \o SourceDir(f).manifest.version \o ext
                    n == Len(f.name) - Len(tail)
                IN  /\ n >= 0
                    /\ SubSeq(f.name, n + 1, Len(f.name)) = tail
                    /\ \A i \in 1..n : IsNameChar(f.name[i])


\* The text of a checksum file.  The digest of an archive is written as one
\* token, the identity of the archive's content: equal contents have equal
\* digests and different contents different ones
ChecksumFileText(f) ==
    << f.checksum >>
        \o (IF f.separator = "  " THEN << " ", " " >> ELSE << >>)
        \o f.basename \o << "\n" >>

\* verify-package.sh, the checksum part: expected_checksum=$(cat
\* "$checksum_file") is compared with the digest of the package file
verifyPackage(files, PACKAGE_FILE) ==
    LET checksum_files == { g \in files :
                              g.name = PACKAGE_FILE.name \o Sha256Ext }
    IN  IF checksum_files = {}
        THEN "not found"
        ELSE LET checksum_file == CHOOSE g \in checksum_files : TRUE
                 expected_checksum ==
                     CommandSubstitution(ChecksumFileText(checksum_file))
                 calculated_checksum == << PACKAGE_FILE.content >>
             IN  IF calculated_checksum = expected_checksum
                 THEN "passed"
                 ELSE "exit 1"

\* C26: next to every archive written by packaging there is the file
\* <archive>.sha256 with the content "<digest><two spaces><archive base
\* name><newline>", and verifying the unmodified archive against it
\* succeeds.
C26_SidecarVerifies ==
    \A f \in outputFiles :
        f.kind = "archive" =>
            /\ \E g \in outputFiles :
                  /\ g.name = f.name \o Sha256Ext
                  /\ ChecksumFileText(g)
                        = << f.content, " ", " " >> \o f.name \o << "\n" >>
            /\ verifyPackage(outputFiles, f) = "passed"


\* processPluginVersions extracts `${pluginName}/manifest.mf` from the
\* archive, pluginName being the name parsed from the archive file name: the
\* manifest is found when the archive's top-level directory has that name
ManifestFoundIn(f) ==
    LET parsedName == parsePluginArchiveName(f.name)
    IN  /\ parsedName.match
        /\ f.root = parsedName.name

\* C30: for every plugin that packaging writes as a tar.gz archive,
\* documentation assembly finds the manifest inside the archive: the name
\* parsed from the archive file name is the name of the archive's top-level
\* directory.
C30_ManifestFoundInArchive ==
    \A f \in outputFiles :
        (f.kind = "archive" /\ f.root # << >>) => ManifestFoundIn(f)

====
